---- MODULE Spec2Model ----
(***************************************************************************)
(* A model of git-annex-ria-remote (ria_remote/remote.py): the RIARemote   *)
(* special-remote handler, its layout version gate, and the two IO         *)
(* backends LocalIO and SSHRemoteIO, run by up to two handler processes    *)
(* against one store.                                                      *)
(*                                                                         *)
(* The store is a file system on the host that holds it: a set of          *)
(* directories and a map from file paths to file records.  A path is a     *)
(* sequence of names.  A file record holds the bytes of the file and the   *)
(* set of handlers that hold it open for writing, so that a rename moves   *)
(* an open file and a late write lands in the renamed file, as on POSIX.   *)
(* A byte is a number below 256; 10 is the newline.  The two end markers   *)
(* of the shared remote shell are each one token of the shell's output.    *)
(***************************************************************************)
EXTENDS Integers, Sequences, FiniteSets, TLC

VARIABLES
    dirs,        \* directories of the store host
    files,       \* path -> [data, writers] for the files of the store host
    archive,     \* [exists, members]: the repository's archive.7z (never written)
    dirs0,       \* the directories when the first handler started
    files0,      \* the files when the first handler started
    pc,          \* handler -> position in the running call
    io,          \* handler -> "local" (LocalIO) or "ssh" (SSHRemoteIO)
    uuid,        \* handler -> self.uuid
    force_write, \* handler -> self.force_write (a configuration string)
    read_only,   \* handler -> self.read_only
    stream,      \* handler -> unread output of its remote shell
    ctx,         \* handler -> locals of the running (or last) call
    dst,         \* handler -> the local file its last transfer_retrieve wrote
    res,         \* handler -> outcome of its last finished call
    prev,        \* handler -> outcome of the call before that
    calls,       \* handler -> calls it may still start
    faults       \* backend faults (disk full, lost connection) still to come

vars == <<dirs, files, archive, dirs0, files0, pc, io, uuid, force_write,
          read_only, stream, ctx, dst, res, prev, calls, faults>>

storeVars == <<dirs, files>>
cfgVars == <<archive, dirs0, files0, io, uuid, force_write>>

(***************************************************************************)
(* Bounds of the model.                                                    *)
(***************************************************************************)
\* calls one handler makes after prepare when it runs alone
SeqCalls == 2
\* calls each handler makes after prepare when two handlers run
ConcCalls == 1
\* backend faults injected in one behaviour
MaxFaults == 1

Handlers == {"h1", "h2"}
Uuids == {"u1", "u2"}

(***************************************************************************)
(* Bytes and shell tokens.                                                 *)
(***************************************************************************)
NL == 10
\* the line "ria-remote: end - ok\n" / "ria-remote: end - fail\n"
REMOTE_CMD_OK == 256
REMOTE_CMD_FAIL == 257
\* the text of a key's relative object path in a 7z listing, as one token
LocTokenBase == 300
\* size of one read1() request
ReadChunk == 1024
None == -1

LineEnd == {NL, REMOTE_CMD_OK, REMOTE_CMD_FAIL}

\* str.strip() on the content of a marker file: drop white space at both ends
RECURSIVE StripLeft(_)
StripLeft(s) == IF s # <<>> /\ s[1] \in {NL, 32} THEN StripLeft(Tail(s)) ELSE s
RECURSIVE StripRight(_)
StripRight(s) ==
    IF s # <<>> /\ s[Len(s)] \in {NL, 32}
    THEN StripRight(SubSeq(s, 1, Len(s) - 1)) ELSE s
Strip(s) == StripRight(StripLeft(s))

\* RIARemote._dataset_tree_version and _object_tree_version: the string '1'
SupportedVersion == <<49>>

\* truth value of a configuration string (None and '' are false)
Truthy(s) == s # ""

(***************************************************************************)
(* Keys.  A key is named by its string; KeyFields gives the fields between *)
(* the backend name and the "--", each a letter and a number (None when    *)
(* the text after the letter is not a number).                             *)
(***************************************************************************)
Keys == {"MD5E-s2--k1", "URL--k2"}

KeyFields(key) ==
    CASE key = "MD5E-s2--k1" -> << <<"s", 2>> >>
      [] key = "URL--k2" -> << >>
      [] OTHER -> << >>

\* the last value the loop of _get_download_size_from_key assigns for a letter
RECURSIVE LastField(_, _)
LastField(fields, letter) ==
    IF fields = << >> THEN None
    ELSE IF fields[Len(fields)][1] = letter THEN fields[Len(fields)][2]
    ELSE LastField(SubSeq(fields, 1, Len(fields) - 1), letter)

DownloadSizeFromZero(fields) ==
    LET s == LastField(fields, "s")
        S == LastField(fields, "S")
        C == LastField(fields, "C")
    IN  IF s = None THEN [ok |-> TRUE, size |-> None]
        ELSE IF S = None /\ C = None THEN [ok |-> TRUE, size |-> s]
        ELSE IF S # None /\ S # 0 /\ C # None /\ C # 0
             THEN [ok |-> TRUE, size |-> IF C < s \div S THEN S ELSE s % S]
        ELSE [ok |-> FALSE, size |-> None]

\* a size that is taken from s when only one of S and C is there
DownloadSizeLenient(fields) ==
    LET s == LastField(fields, "s")
        S == LastField(fields, "S")
        C == LastField(fields, "C")
    IN  IF s = None THEN [ok |-> TRUE, size |-> None]
        ELSE IF S = None \/ C = None THEN [ok |-> TRUE, size |-> s]
        ELSE IF S # 0 /\ C # 0
             THEN [ok |-> TRUE, size |-> IF C <= s \div S THEN S ELSE s % S]
        ELSE [ok |-> FALSE, size |-> None]

DownloadSizeMutant(fields) ==
    [ok |-> TRUE, size |-> LastField(fields, "s") + 1]

\* SSHRemoteIO._get_download_size_from_key: [ok, size]; ok = FALSE is the
\* RemoteError "invalid key"; size None is "not determinable"
DownloadSize(fields) ==
    LET s == LastField(fields, "s")
        S == LastField(fields, "S")
        C == LastField(fields, "C")
    IN  IF s = None THEN [ok |-> TRUE, size |-> None]
        ELSE IF S = None /\ C = None THEN [ok |-> TRUE, size |-> s]
        ELSE IF S # None /\ S # 0 /\ C # None /\ C # 0
             THEN [ok |-> TRUE, size |-> IF C <= s \div S THEN S ELSE s % S]
        ELSE [ok |-> FALSE, size |-> None]

\* the content of the local file handler h is told to store for a key: a key
\* with a size field names content of that size; the two handlers hold
\* different bytes, so that the model tells their transfers apart
Payload(h, key) ==
    IF key = "MD5E-s2--k1"
    THEN (IF h = "h1" THEN <<65, 10>> ELSE <<66, 66>>)
    ELSE (IF h = "h1" THEN <<65>> ELSE <<66, 10>>)

LocToken(key) == IF key = "MD5E-s2--k1" THEN LocTokenBase + 1 ELSE LocTokenBase + 2

(***************************************************************************)
(* Layout.                                                                 *)
(***************************************************************************)
BasePath == <<"base">>
\* archive_id "abcdef": archive_id[:3] and archive_id[3:]
ArchiveIdHead == "abc"
ArchiveIdTail == "def"

\* RIARemote.get_layout_locations
DsGitDir == BasePath \o <<ArchiveIdHead, ArchiveIdTail>>
ArchiveDir == DsGitDir \o <<"archives">>
DsObjDir == DsGitDir \o <<"annex", "objects">>

\* annex.dirhash_lower(key): two directory levels
DirHash(key) == IF key = "MD5E-s2--k1" THEN <<"f87", "4d5">> ELSE <<"0a1", "b2c">>

\* RIARemote._get_obj_location
KeyPath(key) == DirHash(key) \o <<key, key>>
ArchivePath == ArchiveDir \o <<"archive.7z">>
\* the object path with the key named once
ObjPathMutant(key) == DsObjDir \o DirHash(key) \o <<key>>
ObjPath(key) == DsObjDir \o KeyPath(key)

TransferDirName(u) == IF u = "u1" THEN "ria-remote-u1" ELSE "ria-remote-u2"
TransferDir(u) == DsGitDir \o <<TransferDirName(u), "transfer">>
TmpPathMutant(u, key) == ObjPath(key)
\* a staging path that does not depend on the remote's uuid
TmpPathShared(u, key) == DsGitDir \o <<"ria-remote-u1", "transfer", key>>
TmpPath(u, key) == TransferDir(u) \o <<key>>

\* the two marker files of _check_layout_version
VersionFile(lvl) ==
    IF lvl = 1 THEN BasePath \o <<"ria-layout-version">>
    ELSE DsGitDir \o <<"ria-layout-version">>

(***************************************************************************)
(* The file system of the store host.                                      *)
(***************************************************************************)
Parent(p) == SubSeq(p, 1, Len(p) - 1)
Prefixes(p) == {SubSeq(p, 1, n) : n \in 1..Len(p)}
\* the root directory always exists
IsDirIn(d, p) == p = << >> \/ p \in d
IsFile(p) == p \in DOMAIN files
IsDir(p) == IsDirIn(dirs, p)
PathExists(p) == IsFile(p) \/ IsDir(p)
IsEmptyDir(p) ==
    /\ IsDir(p)
    /\ \A q \in dirs \cup DOMAIN files : Parent(q) # p

NewFile(data, writers) == [data |-> data, writers |-> writers]

\* the file map with p set to record f / with p gone / with p moved to q
WithFile(fs, p, f) == [x \in DOMAIN fs \cup {p} |-> IF x = p THEN f ELSE fs[x]]
WithoutFile(fs, p) == [x \in DOMAIN fs \ {p} |-> fs[x]]
Renamed(fs, p, q) == WithFile(WithoutFile(fs, p), q, fs[p])

\* one write of byte b at offset off (counted from 0) into data; a gap left
\* by a truncation under the writer reads as zero bytes
WriteAt(data, off, b) ==
    [i \in 1..(IF Len(data) > off + 1 THEN Len(data) ELSE off + 1) |->
        IF i = off + 1 THEN b
        ELSE IF i <= Len(data) THEN data[i] ELSE 0]

\* the file handler h holds open for writing, wherever it has been renamed to
OpenPathOf(h) == {p \in DOMAIN files : h \in files[p].writers}

(***************************************************************************)
(* The shared remote shell of SSHRemoteIO.  A command written to the shell *)
(* runs on the store host; what it prints on stdout is appended to the     *)
(* handler's stream (stderr is discarded).                                 *)
(***************************************************************************)
\* a line of the stream that is exactly one of the two end markers
SentinelAt(s, i) ==
    /\ s[i] \in {REMOTE_CMD_OK, REMOTE_CMD_FAIL}
    /\ (i = 1 \/ s[i - 1] \in LineEnd)

FirstSentinel(s) ==
    IF \E i \in 1..Len(s) : SentinelAt(s, i)
    THEN CHOOSE i \in 1..Len(s) :
            SentinelAt(s, i) /\ \A j \in 1..(i - 1) : ~SentinelAt(s, j)
    ELSE 0

\* SSHRemoteIO._run on a stream holding `pending`, for a command that prints
\* `output` and ends with success `success`:
\*   status "hang"   no end marker line ever arrives, readline blocks
\*          "failed" RemoteCommandFailedError (check and the FAIL marker)
\*          "error"  RemoteError (no_output and lines before the marker)
\*          "ok"     returns out
ReadLines(s, no_output, check) ==
    LET i == FirstSentinel(s)
    IN  IF i = 0 THEN [status |-> "hang", out |-> s, rest |-> << >>]
        ELSE LET out == SubSeq(s, 1, i - 1)
                 rest == SubSeq(s, i + 1, Len(s))
             IN  IF s[i] = REMOTE_CMD_FAIL /\ check
                 THEN [status |-> "failed", out |-> out, rest |-> rest]
                 ELSE IF no_output /\ i > 1
                 THEN [status |-> "error", out |-> out, rest |-> rest]
                 ELSE [status |-> "ok", out |-> out, rest |-> rest]

Run(pending, output, success, no_output, check) ==
    ReadLines(pending \o output
                \o <<IF success THEN REMOTE_CMD_OK ELSE REMOTE_CMD_FAIL>>,
              no_output, check)

\* _run when the shell process ends after the command's output and before
\* the end marker: at end-of-file readline() returns '' at once, every time
RunToEof(pending, output, no_output, check) ==
    ReadLines(pending \o output, no_output, check)

\* the fixed-size read loop of SSHRemoteIO.get and get_from_archive: read1()
\* chunks until size bytes have arrived; blocks for ever on an empty stream
RECURSIVE ReadSized(_, _, _)
ReadSized(s, size, got) ==
    IF Len(got) >= size THEN [hang |-> FALSE, data |-> got, rest |-> s]
    ELSE IF s = << >> THEN [hang |-> TRUE, data |-> got, rest |-> s]
    ELSE LET n == IF Len(s) < ReadChunk THEN Len(s) ELSE ReadChunk
         IN  ReadSized(SubSeq(s, n + 1, Len(s)), size, got \o SubSeq(s, 1, n))

(***************************************************************************)
(* Handler state.                                                          *)
(***************************************************************************)
NoCall == [op |-> "none", key |-> "", status |-> "none", msg |-> ""]
NoCtx == [key |-> "", data |-> << >>, off |-> 0, lvl |-> 0]
NoDst == [present |-> FALSE, data |-> << >>]

Result(op, key, status, msg) == [op |-> op, key |-> key, status |-> status, msg |-> msg]

FinishMutant(h, r, at) ==
    /\ pc' = [pc EXCEPT ![h] = at]
    /\ prev' = [prev EXCEPT ![h] = res[h]]
    /\ res' = [res EXCEPT ![h] =
                IF read_only[h] THEN Result(r.op, r.key, "error", "readonly") ELSE r]

\* the running call of h ends with result r; the handler goes on at `at`
Finish(h, r, at) ==
    /\ pc' = [pc EXCEPT ![h] = at]
    /\ prev' = [prev EXCEPT ![h] = res[h]]
    /\ res' = [res EXCEPT ![h] = r]

Goto(h, at) ==
    /\ pc' = [pc EXCEPT ![h] = at]
    /\ UNCHANGED <<res, prev>>

GatePcs == {"g_read", "g_exists", "g_mkdir", "g_write"}
\* h has finished prepare() without an error
Prepared(h) ==
    /\ pc[h] \notin {"off", "new", "failed"} \cup GatePcs
    /\ ~(pc[h] = "hung" /\ ctx[h].lvl # 0)

(***************************************************************************)
(* Initial states.                                                         *)
(***************************************************************************)
MarkerContents == {<<49>>, <<49, 10>>, <<50, 10>>}
\* a marker file is absent (<< >>) or holds one of the contents
MarkerOptions == {<< >>} \cup {<<c>> : c \in MarkerContents}

StoreWith(repo, o1, o2) ==
    [d |-> {BasePath} \cup (IF repo THEN Prefixes(DsGitDir) ELSE {}),
     f |-> [p \in {VersionFile(lvl) : lvl \in {l \in {1, 2} :
                        IF l = 1 THEN o1 # << >> ELSE o2 # << >>}} |->
              NewFile(IF p = VersionFile(1) THEN o1[1] ELSE o2[1], {})]]

\* the stores a handler may find: none, a bare base directory, or a base
\* directory with a repository directory; marker files present or not
InitialStores ==
    {[d |-> {}, f |-> << >>]}
    \cup {StoreWith(FALSE, o1, << >>) : o1 \in MarkerOptions}
    \cup {StoreWith(TRUE, o[1], o[2]) : o \in MarkerOptions \X MarkerOptions}

\* a store as ria-remote itself leaves it after a first prepare
ClaimedStore ==
    [d |-> {BasePath} \cup Prefixes(DsGitDir),
     f |-> [p \in {VersionFile(1), VersionFile(2)} |-> NewFile(<<49, 10>>, {})]]

\* a claimed store in which an earlier handler process of remote u1 died
\* during an upload and left its staging file behind
StaleStore ==
    [d |-> ClaimedStore.d \cup Prefixes(TransferDir("u1")),
     f |-> WithFile(ClaimedStore.f, TmpPath("u1", "MD5E-s2--k1"),
                    NewFile(<<67>>, {}))]

\* a claimed store that already holds the object of the key without a size
\* field, put there by an earlier handler process; a key names one content,
\* so the object holds the bytes h1 has for that key
StockedStore ==
    [d |-> ClaimedStore.d \cup Prefixes(Parent(ObjPath("URL--k2"))),
     f |-> WithFile(ClaimedStore.f, ObjPath("URL--k2"),
                    NewFile(Payload("h1", "URL--k2"), {}))]

InitialArchives(st) ==
    {[exists |-> FALSE, members |-> << >>]}
    \cup (IF DsGitDir \in st.d
          THEN {[exists |-> TRUE, members |-> << >>],
                [exists |-> TRUE,
                 members |-> [k \in {"MD5E-s2--k1"} |-> <<67, 67>>]]}
          ELSE {})

InitCommon ==
    /\ dirs0 = dirs
    /\ files0 = files
    /\ read_only = [h \in Handlers |-> FALSE]
    /\ stream = [h \in Handlers |-> << >>]
    /\ ctx = [h \in Handlers |-> NoCtx]
    /\ dst = [h \in Handlers |-> NoDst]
    /\ res = [h \in Handlers |-> NoCall]
    /\ prev = [h \in Handlers |-> NoCall]

\* one handler, any store
InitSeq ==
    /\ \E st \in InitialStores \cup {StaleStore, StockedStore} :
          /\ archive \in InitialArchives(st)
          /\ dirs = st.d \cup (IF archive.exists THEN {ArchiveDir} ELSE {})
          /\ files = st.f
    /\ pc = [h \in Handlers |-> IF h = "h1" THEN "new" ELSE "off"]
    /\ io \in [Handlers -> {"local", "ssh"}]
    /\ io["h2"] = "local"
    /\ uuid = [h \in Handlers |-> "u1"]
    /\ force_write \in [Handlers -> {"", "true", "false"}]
    /\ force_write["h2"] = ""
    /\ calls = [h \in Handlers |-> IF h = "h1" THEN SeqCalls ELSE 0]
    /\ faults = MaxFaults
    /\ InitCommon

\* two handlers on one store that is new or has been claimed before; they
\* act for the same remote (one uuid) or for two
InitConc ==
    /\ \E st \in {[d |-> {}, f |-> << >>], ClaimedStore} :
          /\ dirs = st.d
          /\ files = st.f
    /\ archive = [exists |-> FALSE, members |-> << >>]
    /\ pc = [h \in Handlers |-> "new"]
    /\ io \in [Handlers -> {"local", "ssh"}]
    /\ uuid \in [Handlers -> Uuids]
    /\ uuid["h1"] = "u1"
    /\ force_write = [h \in Handlers |-> ""]
    /\ calls = [h \in Handlers |-> ConcCalls]
    /\ faults = MaxFaults
    /\ InitCommon

\* two handlers of one remote on one store, on the same backend; h1 runs
\* without force-write and h2 with it, so that on a store the gate does not
\* trust h1 is read-only and h2 is read-write
InitPair ==
    /\ \E st \in InitialStores :
          /\ archive \in InitialArchives(st)
          /\ dirs = st.d \cup (IF archive.exists THEN {ArchiveDir} ELSE {})
          /\ files = st.f
    /\ pc = [h \in Handlers |-> "new"]
    /\ io \in {[h \in Handlers |-> b] : b \in {"local", "ssh"}}
    /\ uuid = [h \in Handlers |-> "u1"]
    /\ force_write = [h \in Handlers |-> IF h = "h1" THEN "" ELSE "true"]
    /\ calls = [h \in Handlers |-> ConcCalls]
    /\ faults = MaxFaults
    /\ InitCommon

(***************************************************************************)
(* prepare() and the layout version gate.                                  *)
(***************************************************************************)
\* whether a backend step may be hit by a fault
FaultChoices == IF faults > 0 THEN {FALSE, TRUE} ELSE {FALSE}
Charge(fail) == faults' = IF fail THEN faults - 1 ELSE faults

\* _set_read_only that flips the flag
SetReadOnlyFlips(h) == [read_only EXCEPT ![h] = ~@]
\* RIARemote._set_read_only: the value of self.read_only after the call
SetReadOnlyMutant(h) == [read_only EXCEPT ![h] = TRUE]
SetReadOnly(h) ==
    IF ~Truthy(force_write[h]) THEN [read_only EXCEPT ![h] = TRUE] ELSE read_only

\* the comparison of _check_layout_version on what read_file returned
VersionSupportedMutant(content) == content = SupportedVersion
VersionSupported(content) == Strip(content) = SupportedVersion

\* LocalIO.write_file / SSHRemoteIO.write_file: the bytes that end in the file
LocalWriteDataMutant(content) == << >>
LocalWriteData(content) == content
SshWriteData(content) ==
    (IF content # << >> /\ content[Len(content)] = NL
     THEN content ELSE content \o <<NL>>) \o <<NL>>

\* the gate is done with one marker: on to the next, or prepare returns
GateAdvance(h) ==
    IF ctx[h].lvl = 1
    THEN /\ ctx' = [ctx EXCEPT ![h].lvl = 2]
         /\ Goto(h, "g_read")
    ELSE /\ ctx' = [ctx EXCEPT ![h].lvl = 0]
         /\ Finish(h, Result("prepare", "", "ok", ""), "idle")

\* a failure in the gate that is passed over
PrepareFailsMutant(h, msg) == GateAdvance(h)

PrepareFails(h, msg) ==
    /\ Finish(h, Result("prepare", "", "error", msg), "failed")
    /\ UNCHANGED ctx

Hangs(h, op) ==
    /\ Finish(h, Result(op, ctx[h].key, "hang", ""), "hung")
    /\ UNCHANGED ctx

\* prepare(): configuration is read and the backend chosen
PrepareBegin(h) ==
    /\ pc[h] = "new"
    /\ ctx' = [ctx EXCEPT ![h] = [NoCtx EXCEPT !.lvl = 1]]
    /\ Goto(h, "g_read")
    /\ UNCHANGED <<storeVars, cfgVars, read_only, stream, dst, calls, faults>>

\* self.io.read_file(version_file).strip() and the version comparison
GateRead(h) ==
    /\ pc[h] = "g_read"
    /\ LET vf == VersionFile(ctx[h].lvl)
           data == IF IsFile(vf) THEN files[vf].data ELSE << >>
       IN  IF io[h] = "local"
           THEN /\ UNCHANGED stream
                /\ IF IsFile(vf)
                   THEN /\ read_only' = IF VersionSupported(data)
                                        THEN read_only ELSE SetReadOnly(h)
                        /\ GateAdvance(h)
                   ELSE /\ Goto(h, "g_exists")
                        /\ UNCHANGED <<read_only, ctx>>
           ELSE LET r == Run(stream[h], data, IsFile(vf), FALSE, TRUE)
                IN  /\ stream' = [stream EXCEPT ![h] = r.rest]
                    /\ IF r.status = "hang"
                       THEN Hangs(h, "prepare") /\ UNCHANGED read_only
                       ELSE IF r.status = "failed"
                       THEN /\ Goto(h, "g_exists")
                            /\ UNCHANGED <<read_only, ctx>>
                       ELSE /\ read_only' = IF VersionSupported(r.out)
                                            THEN read_only ELSE SetReadOnly(h)
                            /\ GateAdvance(h)
    /\ UNCHANGED <<storeVars, cfgVars, dst, calls, faults>>

\* self.io.exists(version_file.parent)
GateExists(h) ==
    /\ pc[h] = "g_exists"
    /\ LET parent == Parent(VersionFile(ctx[h].lvl))
           r == Run(stream[h], << >>, PathExists(parent), TRUE, TRUE)
           status == IF io[h] = "local" THEN "ok" ELSE r.status
           found == IF io[h] = "local" THEN PathExists(parent) ELSE r.status = "ok"
       IN  /\ stream' = IF io[h] = "local" THEN stream
                        ELSE [stream EXCEPT ![h] = r.rest]
           /\ IF status = "hang" THEN Hangs(h, "prepare") /\ UNCHANGED read_only
              ELSE IF status = "error"
              THEN PrepareFails(h, "exists") /\ UNCHANGED read_only
              ELSE IF found
              THEN /\ read_only' = SetReadOnly(h)
                   /\ GateAdvance(h)
              ELSE /\ Goto(h, "g_mkdir")
                   /\ UNCHANGED <<read_only, ctx>>
    /\ UNCHANGED <<storeVars, cfgVars, dst, calls, faults>>

\* self.io.mkdir(version_file.parent) of the claiming branch
GateMkdir(h) ==
    /\ pc[h] = "g_mkdir"
    /\ \E fail \in FaultChoices :
        LET parent == Parent(VersionFile(ctx[h].lvl))
            r == Run(stream[h], << >>, ~fail, TRUE, FALSE)
        IN  /\ Charge(fail)
            /\ dirs' = IF fail THEN dirs ELSE dirs \cup Prefixes(parent)
            /\ IF io[h] = "local"
               THEN /\ UNCHANGED stream
                    /\ IF fail THEN PrepareFails(h, "mkdir")
                       ELSE Goto(h, "g_write") /\ UNCHANGED ctx
               ELSE /\ stream' = [stream EXCEPT ![h] = r.rest]
                    /\ IF r.status = "hang" THEN Hangs(h, "prepare")
                       ELSE IF r.status = "error" THEN PrepareFails(h, "mkdir")
                       ELSE Goto(h, "g_write") /\ UNCHANGED ctx
    /\ UNCHANGED <<files, cfgVars, read_only, dst, calls>>

\* self.io.write_file(version_file, version) of the claiming branch
GateWrite(h) ==
    /\ pc[h] = "g_write"
    /\ \E fail \in FaultChoices :
        LET vf == VersionFile(ctx[h].lvl)
            able == IsDir(Parent(vf)) /\ ~IsDir(vf) /\ ~fail
            data == IF io[h] = "local" THEN LocalWriteData(SupportedVersion)
                    ELSE SshWriteData(SupportedVersion)
            writers == IF IsFile(vf) THEN files[vf].writers ELSE {}
            r == Run(stream[h], << >>, able, TRUE, TRUE)
            status == IF io[h] = "local"
                      THEN (IF able THEN "ok" ELSE "failed") ELSE r.status
        IN  /\ Charge(fail)
            /\ files' = IF able THEN WithFile(files, vf, NewFile(data, writers))
                        ELSE files
            /\ stream' = IF io[h] = "local" THEN stream
                         ELSE [stream EXCEPT ![h] = r.rest]
            /\ IF status = "hang" THEN Hangs(h, "prepare")
               ELSE IF status = "ok" THEN GateAdvance(h)
               ELSE PrepareFails(h, "write_file")
    /\ UNCHANGED <<dirs, cfgVars, read_only, dst, calls>>

(***************************************************************************)
(* transfer_store.                                                         *)
(***************************************************************************)
\* a call starts: the handler is idle and may still make a call
CanCall(h) == pc[h] = "idle" /\ calls[h] > 0
Called(h) == calls' = [calls EXCEPT ![h] = calls[h] - 1]

ReadOnlyError(op, key) == Result(op, key, "error", "readonly")

\* `if self.read_only: raise RemoteError(...)` at the top of transfer_store
\* and remove
WriteRefusedMutant(h) == FALSE
WriteRefused(h) == read_only[h]

\* Path.exists() evaluated by the handler process on its own machine: with
\* LocalIO that is the store host, with SSHRemoteIO it is the client machine,
\* which holds nothing at the store's paths
ClientPathExists(h, p) == IF io[h] = "local" THEN PathExists(p) ELSE FALSE

\* an exception other than RemoteError leaves the handler (the process ends)
Raises(h, op) ==
    /\ Finish(h, Result(op, ctx[h].key, "raised", ""), "crashed")
    /\ UNCHANGED ctx

\* SSHRemoteIO.mkdir, rename, remove, remove_dir: _run(cmd) of a command that
\* prints nothing on stdout and ends with success `success`
RunQuiet(h, success) == Run(stream[h], << >>, success, TRUE, FALSE)

\* the read-only check, then self.io.mkdir(key_path.parent)
StoreBegin(h) ==
    /\ CanCall(h)
    /\ Called(h)
    /\ \E key \in Keys :
        LET data == Payload(h, key)
            r == RunQuiet(h, TRUE)
            status == IF io[h] = "local" THEN "ok" ELSE r.status
        IN  /\ ctx' = [ctx EXCEPT ![h] =
                        [key |-> key, data |-> data, off |-> 0, lvl |-> 0]]
            /\ IF WriteRefused(h)
               THEN /\ Finish(h, ReadOnlyError("store", key), "idle")
                    /\ UNCHANGED <<dirs, stream>>
               ELSE /\ dirs' = dirs \cup Prefixes(Parent(ObjPath(key)))
                    /\ stream' = IF io[h] = "local" THEN stream
                                 ELSE [stream EXCEPT ![h] = r.rest]
                    /\ IF status = "hang"
                       THEN Finish(h, Result("store", key, "hang", ""), "hung")
                       ELSE IF status = "error"
                       THEN Finish(h, Result("store", key, "error", "mkdir"), "idle")
                       ELSE Goto(h, "st_mkdir")
    /\ UNCHANGED <<files, cfgVars, read_only, dst, faults>>

\* self.io.mkdir(transfer_dir)
StoreMkdir(h) ==
    /\ pc[h] = "st_mkdir"
    /\ LET r == RunQuiet(h, TRUE)
           status == IF io[h] = "local" THEN "ok" ELSE r.status
       IN  /\ dirs' = dirs \cup Prefixes(TransferDir(uuid[h]))
           /\ stream' = IF io[h] = "local" THEN stream
                        ELSE [stream EXCEPT ![h] = r.rest]
           /\ IF status = "hang"
              THEN Finish(h, Result("store", ctx[h].key, "hang", ""), "hung")
              ELSE IF status = "error"
              THEN Finish(h, Result("store", ctx[h].key, "error", "mkdir"), "idle")
              ELSE Goto(h, "st_check")
    /\ UNCHANGED <<files, cfgVars, read_only, ctx, dst, calls, faults>>

\* if tmp_path.exists(): raise RemoteError('upload already in progress')
StoreCheck(h) ==
    /\ pc[h] = "st_check"
    /\ IF ClientPathExists(h, TmpPath(uuid[h], ctx[h].key))
       THEN Finish(h, Result("store", ctx[h].key, "error", "inprogress"), "idle")
       ELSE Goto(h, "st_put")
    /\ UNCHANGED <<storeVars, cfgVars, read_only, stream, ctx, dst, calls, faults>>

\* self.io.put(filename, tmp_path): the copy opens the staging file for
\* writing, which creates it or truncates what is there
StorePutOpen(h) ==
    /\ pc[h] = "st_put"
    /\ \E fail \in FaultChoices :
        LET tmp == TmpPath(uuid[h], ctx[h].key)
            able == IsDir(Parent(tmp)) /\ ~IsDir(tmp) /\ ~fail
            writers == IF IsFile(tmp) THEN files[tmp].writers ELSE {}
        IN  /\ Charge(fail)
            /\ files' = IF able
                        THEN WithFile(files, tmp, NewFile(<< >>, writers \cup {h}))
                        ELSE files
            /\ Goto(h, IF able THEN "st_write" ELSE "st_cleanup")
    /\ UNCHANGED <<dirs, cfgVars, read_only, stream, ctx, dst, calls>>

\* the files with the next byte of h's source written through its open file,
\* and the file closed when that was the last byte or the copy is given up
AfterWrite(h, fail) ==
    LET open == OpenPathOf(h)
        off == ctx[h].off
        last == fail \/ off + 1 >= Len(ctx[h].data)
    IN  [p \in DOMAIN files |->
            IF p \in open
            THEN NewFile(IF fail THEN files[p].data
                         ELSE WriteAt(files[p].data, off, ctx[h].data[off + 1]),
                         IF last THEN files[p].writers \ {h} ELSE files[p].writers)
            ELSE files[p]]

\* the copy writes the next part of the source file
StorePutWrite(h) ==
    /\ pc[h] = "st_write"
    /\ \E fail \in FaultChoices :
        /\ Charge(fail)
        /\ files' = AfterWrite(h, fail)
        /\ ctx' = [ctx EXCEPT ![h].off = IF fail THEN @ ELSE @ + 1]
        /\ Goto(h, IF fail THEN "st_cleanup"
                   ELSE IF ctx[h].off + 1 >= Len(ctx[h].data) THEN "st_rename"
                   ELSE "st_write")
    /\ UNCHANGED <<dirs, cfgVars, read_only, stream, dst, calls>>

\* whether rename(2) / mv of src to dst can succeed
CanRename(src, dst_) == IsFile(src) /\ IsDir(Parent(dst_)) /\ ~IsDir(dst_)

\* self.io.rename(tmp_path, key_path)
StoreRename(h) ==
    /\ pc[h] = "st_rename"
    /\ \E fail \in FaultChoices :
        LET tmp == TmpPath(uuid[h], ctx[h].key)
            obj == ObjPath(ctx[h].key)
            able == CanRename(tmp, obj) /\ ~fail
            r == RunQuiet(h, able)
            status == IF io[h] = "local"
                      THEN (IF able THEN "ok" ELSE "failed") ELSE r.status
        IN  /\ Charge(fail)
            /\ files' = IF able THEN Renamed(files, tmp, obj) ELSE files
            /\ stream' = IF io[h] = "local" THEN stream
                         ELSE [stream EXCEPT ![h] = r.rest]
            /\ IF status = "hang"
               THEN Finish(h, Result("store", ctx[h].key, "hang", ""), "hung")
               ELSE IF status = "ok"
               THEN Finish(h, Result("store", ctx[h].key, "ok", ""), "idle")
               ELSE Goto(h, "st_cleanup")
    /\ UNCHANGED <<dirs, cfgVars, read_only, ctx, dst, calls>>

\* except Exception: self.io.remove(tmp_path); raise RemoteError(str(e))
StoreCleanup(h) ==
    /\ pc[h] = "st_cleanup"
    /\ LET tmp == TmpPath(uuid[h], ctx[h].key)
           r == RunQuiet(h, IsFile(tmp))
           status == IF io[h] = "local"
                     THEN (IF IsFile(tmp) THEN "ok" ELSE "raised") ELSE r.status
       IN  /\ files' = IF IsFile(tmp) THEN WithoutFile(files, tmp) ELSE files
           /\ stream' = IF io[h] = "local" THEN stream
                        ELSE [stream EXCEPT ![h] = r.rest]
           /\ IF status = "hang"
              THEN Finish(h, Result("store", ctx[h].key, "hang", ""), "hung")
              ELSE IF status = "raised"
              THEN Finish(h, Result("store", ctx[h].key, "raised", ""), "crashed")
              ELSE Finish(h, Result("store", ctx[h].key, "error", "io"), "idle")
    /\ UNCHANGED <<dirs, cfgVars, read_only, ctx, dst, calls, faults>>

(***************************************************************************)
(* transfer_retrieve.                                                      *)
(***************************************************************************)
HasObject(key) == IsFile(ObjPath(key))
ObjectData(key) == files[ObjPath(key)].data
InArchive(key) == archive.exists /\ key \in DOMAIN archive.members
\* what `7z x -so archive member` writes on stdout
Extracted(key) == IF InArchive(key) THEN archive.members[key] ELSE << >>

FileOf(data) == [present |-> TRUE, data |-> data]

\* self.io.get(abs_key_path, filename)
\* LocalIO: shutil.copy.  SSHRemoteIO: `cat` is written to the shell, then the
\* size is worked out from the key; with a size, that many bytes are read
RetrieveBegin(h) ==
    /\ CanCall(h)
    /\ Called(h)
    /\ \E key \in Keys :
        LET size == DownloadSize(KeyFields(key))
            cat == stream[h] \o (IF HasObject(key) THEN ObjectData(key) ELSE << >>)
            rd == ReadSized(cat, size.size, << >>)
        IN  /\ ctx' = [ctx EXCEPT ![h].key = key, ![h].off = 0]
            /\ IF io[h] = "local"
               THEN /\ UNCHANGED stream
                    /\ IF HasObject(key)
                       THEN /\ dst' = [dst EXCEPT ![h] = FileOf(ObjectData(key))]
                            /\ Finish(h, Result("retrieve", key, "ok", ""), "idle")
                       ELSE /\ UNCHANGED dst
                            /\ Goto(h, "rt_arch")
               ELSE IF ~size.ok
               THEN /\ stream' = [stream EXCEPT ![h] = cat]
                    /\ UNCHANGED dst
                    /\ Goto(h, "rt_arch")
               ELSE IF size.size = None
               THEN /\ stream' = [stream EXCEPT ![h] = cat]
                    /\ UNCHANGED dst
                    /\ Goto(h, "rt_scp")
               ELSE /\ stream' = [stream EXCEPT ![h] = rd.rest]
                    /\ dst' = [dst EXCEPT ![h] = FileOf(rd.data)]
                    /\ IF rd.hang
                       THEN Finish(h, Result("retrieve", key, "hang", ""), "hung")
                       ELSE Finish(h, Result("retrieve", key, "ok", ""), "idle")
    /\ UNCHANGED <<storeVars, cfgVars, read_only, faults>>

\* a file copy that takes the object away from the store
RetrieveScpMoves(h) ==
    /\ pc[h] = "rt_scp"
    /\ IF HasObject(ctx[h].key)
       THEN /\ dst' = [dst EXCEPT ![h] = FileOf(ObjectData(ctx[h].key))]
            /\ files' = WithoutFile(files, ObjPath(ctx[h].key))
            /\ Finish(h, Result("retrieve", ctx[h].key, "ok", ""), "idle")
       ELSE /\ UNCHANGED <<dst, files>>
            /\ Goto(h, "rt_arch")
    /\ UNCHANGED <<dirs, cfgVars, read_only, stream, ctx, calls, faults>>

\* SSHRemoteIO.get without a size: self.ssh.get(src, dst), a file copy
RetrieveScp(h) ==
    /\ pc[h] = "rt_scp"
    /\ IF HasObject(ctx[h].key)
       THEN /\ dst' = [dst EXCEPT ![h] = FileOf(ObjectData(ctx[h].key))]
            /\ Finish(h, Result("retrieve", ctx[h].key, "ok", ""), "idle")
       ELSE /\ UNCHANGED dst
            /\ Goto(h, "rt_arch")
    /\ UNCHANGED <<storeVars, cfgVars, read_only, stream, ctx, calls, faults>>

\* except: self.io.get_from_archive(archive_path, key_path, filename)
\* LocalIO: 7z runs with stdout on the target file and its exit status is not
\* looked at.  SSHRemoteIO: `7z x -so` is written to the shell, then size
\* bytes are read; without a size the loop's comparison raises
RetrieveArchive(h) ==
    /\ pc[h] = "rt_arch"
    /\ LET key == ctx[h].key
           size == DownloadSize(KeyFields(key))
           out == stream[h] \o Extracted(key)
           rd == ReadSized(out, size.size, << >>)
       IN  IF io[h] = "local"
           THEN /\ UNCHANGED stream
                /\ dst' = [dst EXCEPT ![h] = FileOf(Extracted(key))]
                /\ Finish(h, Result("retrieve", key, "ok", ""), "idle")
           ELSE IF ~size.ok
           THEN /\ stream' = [stream EXCEPT ![h] = out]
                /\ UNCHANGED dst
                /\ Finish(h, Result("retrieve", key, "error", "both"), "idle")
           ELSE IF size.size = None
           THEN /\ stream' = [stream EXCEPT ![h] = out]
                /\ dst' = [dst EXCEPT ![h] = FileOf(<< >>)]
                /\ Finish(h, Result("retrieve", key, "error", "both"), "idle")
           ELSE /\ stream' = [stream EXCEPT ![h] = rd.rest]
                /\ dst' = [dst EXCEPT ![h] = FileOf(rd.data)]
                /\ IF rd.hang
                   THEN Finish(h, Result("retrieve", key, "hang", ""), "hung")
                   ELSE Finish(h, Result("retrieve", key, "ok", ""), "idle")
    /\ UNCHANGED <<storeVars, cfgVars, read_only, ctx, calls, faults>>

(***************************************************************************)
(* checkpresent.                                                           *)
(***************************************************************************)
\* what `7z l archive member` prints on stdout: a banner line, and the
\* member's line when the archive holds it
Listing(key) == <<55, NL>> \o (IF InArchive(key) THEN <<LocToken(key), NL>> ELSE << >>)
Contains(s, x) == \E i \in 1..Len(s) : s[i] = x

\* self.io.exists(abs_key_path)
CheckBegin(h) ==
    /\ CanCall(h)
    /\ Called(h)
    /\ \E key \in Keys :
        LET r == Run(stream[h], << >>, PathExists(ObjPath(key)), TRUE, TRUE)
            status == IF io[h] = "local"
                      THEN (IF PathExists(ObjPath(key)) THEN "ok" ELSE "failed")
                      ELSE r.status
        IN  /\ ctx' = [ctx EXCEPT ![h].key = key, ![h].off = 0]
            /\ stream' = IF io[h] = "local" THEN stream
                         ELSE [stream EXCEPT ![h] = r.rest]
            /\ IF status = "hang"
               THEN Finish(h, Result("checkpresent", key, "hang", ""), "hung")
               ELSE IF status = "error"
               THEN Finish(h, Result("checkpresent", key, "error", "exists"), "idle")
               ELSE IF status = "ok"
               THEN Finish(h, Result("checkpresent", key, "true", ""), "idle")
               ELSE Goto(h, "cp_arch")
    /\ UNCHANGED <<storeVars, cfgVars, read_only, dst, faults>>

\* return self.io.in_archive(archive_path, key_path)
CheckArchive(h) ==
    /\ pc[h] = "cp_arch"
    /\ LET key == ctx[h].key
           r == Run(stream[h], Listing(key), archive.exists, FALSE, FALSE)
           status == IF io[h] = "local" THEN "ok" ELSE r.status
           found == IF io[h] = "local" THEN InArchive(key)
                    ELSE Contains(r.out, LocToken(key))
       IN  /\ stream' = IF io[h] = "local" THEN stream
                        ELSE [stream EXCEPT ![h] = r.rest]
           /\ IF status = "hang"
              THEN Finish(h, Result("checkpresent", key, "hang", ""), "hung")
              ELSE Finish(h, Result("checkpresent", key,
                                    IF found THEN "true" ELSE "false", ""), "idle")
    /\ UNCHANGED <<storeVars, cfgVars, read_only, ctx, dst, calls, faults>>

(***************************************************************************)
(* remove.                                                                 *)
(***************************************************************************)
\* the read-only check, then self.io.exists(key_path)
RemoveBegin(h) ==
    /\ CanCall(h)
    /\ Called(h)
    /\ \E key \in Keys :
        LET r == Run(stream[h], << >>, PathExists(ObjPath(key)), TRUE, TRUE)
            status == IF io[h] = "local"
                      THEN (IF PathExists(ObjPath(key)) THEN "ok" ELSE "failed")
                      ELSE r.status
        IN  /\ ctx' = [ctx EXCEPT ![h].key = key, ![h].off = 0]
            /\ IF WriteRefused(h)
               THEN /\ Finish(h, ReadOnlyError("remove", key), "idle")
                    /\ UNCHANGED stream
               ELSE /\ stream' = IF io[h] = "local" THEN stream
                                 ELSE [stream EXCEPT ![h] = r.rest]
                    /\ IF status = "hang"
                       THEN Finish(h, Result("remove", key, "hang", ""), "hung")
                       ELSE IF status = "error"
                       THEN Finish(h, Result("remove", key, "error", "exists"), "idle")
                       ELSE Goto(h, IF status = "ok" THEN "rm_file" ELSE "rm_dir")
    /\ UNCHANGED <<storeVars, cfgVars, read_only, dst, faults>>

\* self.io.remove(key_path)
RemoveFile(h) ==
    /\ pc[h] = "rm_file"
    /\ LET obj == ObjPath(ctx[h].key)
           r == RunQuiet(h, IsFile(obj))
           status == IF io[h] = "local"
                     THEN (IF IsFile(obj) THEN "ok" ELSE "raised") ELSE r.status
       IN  /\ files' = IF IsFile(obj) THEN WithoutFile(files, obj) ELSE files
           /\ stream' = IF io[h] = "local" THEN stream
                        ELSE [stream EXCEPT ![h] = r.rest]
           /\ IF status = "hang"
              THEN Finish(h, Result("remove", ctx[h].key, "hang", ""), "hung")
              ELSE IF status = "raised"
              THEN Finish(h, Result("remove", ctx[h].key, "raised", ""), "crashed")
              ELSE IF status = "error"
              THEN Finish(h, Result("remove", ctx[h].key, "error", "rm"), "idle")
              ELSE Goto(h, "rm_dir")
    /\ UNCHANGED <<dirs, cfgVars, read_only, ctx, dst, calls, faults>>

\* the directory the loop of remove() is at: level 0 is the key's directory
RECURSIVE Ancestor(_, _)
Ancestor(p, n) == IF n = 0 THEN p ELSE Ancestor(Parent(p), n - 1)

\* for level in range(2): self.io.remove_dir(key_dir), break on an exception
RemoveDir(h) ==
    /\ pc[h] = "rm_dir"
    /\ LET level == ctx[h].off
           dir == Ancestor(ObjPath(ctx[h].key), level + 1)
           able == IsEmptyDir(dir)
           r == RunQuiet(h, able)
           status == IF io[h] = "local"
                     THEN (IF able THEN "ok" ELSE "failed") ELSE r.status
       IN  /\ dirs' = IF able THEN dirs \ {dir} ELSE dirs
           /\ stream' = IF io[h] = "local" THEN stream
                        ELSE [stream EXCEPT ![h] = r.rest]
           /\ IF status = "hang"
              THEN /\ Finish(h, Result("remove", ctx[h].key, "hang", ""), "hung")
                   /\ UNCHANGED ctx
              ELSE IF status = "ok" /\ level = 0
              THEN /\ ctx' = [ctx EXCEPT ![h].off = 1]
                   /\ Goto(h, "rm_dir")
              ELSE /\ Finish(h, Result("remove", ctx[h].key, "ok", ""), "idle")
                   /\ UNCHANGED ctx
    /\ UNCHANGED <<files, cfgVars, read_only, dst, calls, faults>>

(***************************************************************************)
(* getcost and whereis.                                                    *)
(***************************************************************************)
\* getcost(): '100' with the local backend, '200' otherwise
GetCost(h) ==
    /\ CanCall(h)
    /\ Called(h)
    /\ Finish(h, Result("getcost", "", IF io[h] = "local" THEN "100" ELSE "200", ""),
              "idle")
    /\ UNCHANGED <<storeVars, cfgVars, read_only, stream, ctx, dst, faults>>

\* whereis(key): the key's path below annex/objects, after "host:" with the
\* SSH backend
WhereIs(h) ==
    /\ CanCall(h)
    /\ Called(h)
    /\ \E key \in Keys :
          Finish(h, Result("whereis", key, "ok",
                           IF io[h] = "local" THEN "path" ELSE "host:path"), "idle")
    /\ UNCHANGED <<storeVars, cfgVars, read_only, stream, ctx, dst, faults>>

Prepare(h) ==
    \/ PrepareBegin(h)
    \/ GateRead(h)
    \/ GateExists(h)
    \/ GateMkdir(h)
    \/ GateWrite(h)

TransferStore(h) ==
    \/ StoreBegin(h)
    \/ StoreMkdir(h)
    \/ StoreCheck(h)
    \/ StorePutOpen(h)
    \/ StorePutWrite(h)
    \/ StoreRename(h)
    \/ StoreCleanup(h)

TransferRetrieve(h) ==
    \/ RetrieveBegin(h)
    \/ RetrieveScp(h)
    \/ RetrieveArchive(h)

CheckPresent(h) == CheckBegin(h) \/ CheckArchive(h)

Remove(h) == RemoveBegin(h) \/ RemoveFile(h) \/ RemoveDir(h)

Next ==
    \E h \in Handlers :
        \/ Prepare(h)
        \/ TransferStore(h)
        \/ TransferRetrieve(h)
        \/ CheckPresent(h)
        \/ Remove(h)
        \/ GetCost(h)
        \/ WhereIs(h)

SpecSeq == InitSeq /\ [][Next]_vars
SpecConc == InitConc /\ [][Next]_vars
SpecPair == InitPair /\ [][Next]_vars

(***************************************************************************)
(* SSHRemoteIO._run on its own: one command of one of the callers of _run, *)
(* printing some output and ending with success or not, on a clean shell.  *)
(***************************************************************************)
\* longest output of a command
MaxOut == 2

\* the callers of _run with the no_output and check they pass
ShellCommands ==
    {[cmd |-> "mkdir", no_output |-> TRUE, check |-> FALSE],
     [cmd |-> "mv", no_output |-> TRUE, check |-> FALSE],
     [cmd |-> "rm", no_output |-> TRUE, check |-> FALSE],
     [cmd |-> "rmdir", no_output |-> TRUE, check |-> FALSE],
     [cmd |-> "test", no_output |-> TRUE, check |-> TRUE],
     [cmd |-> "7z", no_output |-> FALSE, check |-> FALSE],
     [cmd |-> "cat", no_output |-> FALSE, check |-> TRUE],
     [cmd |-> "echo", no_output |-> TRUE, check |-> TRUE]}

\* what a command may print on stdout: lines, the last one complete or not
ShellOutputs == UNION {[1..n -> {65, NL}] : n \in 0..MaxOut}

\* the shell process when close() is called: it exits on "exit" within the
\* timeout of wait, it is running but does not exit in time, or it has exited
ShellProcesses == {"exits", "stuck", "dead"}

\* largest total size and chunk size, and largest chunk number, of a chunk key
MaxSize == 5
MaxChunk == 4

\* the fields of the key BACKEND-s<s>-S<S>-C<C>--name
ChunkKeyFields(s, S, C) == << <<"s", s>>, <<"S", S>>, <<"C", C>> >>

\* the bytes of the remote file that SSHRemoteIO.get is asked for
MaxContent == 3
Contents == UNION {[1..n -> {65, NL}] : n \in 0..MaxContent}

InitShell ==
    /\ dirs = {} /\ files = << >> /\ dirs0 = {} /\ files0 = << >>
    /\ archive = [exists |-> FALSE, members |-> << >>]
    /\ io = [h \in Handlers |-> "ssh"]
    /\ uuid = [h \in Handlers |-> "u1"]
    /\ force_write = [h \in Handlers |-> ""]
    /\ read_only = [h \in Handlers |-> FALSE]
    /\ stream = [h \in Handlers |-> << >>]
    /\ \/ /\ pc = [h \in Handlers |-> IF h = "h1" THEN "sh_call" ELSE "off"]
          /\ \E c \in ShellCommands : \E o \in ShellOutputs :
             \E s \in BOOLEAN : \E e \in BOOLEAN :
                ctx = [h \in Handlers |->
                        [call |-> c, output |-> o, success |-> s, eof |-> e,
                         out |-> << >>]]
       \/ /\ pc = [h \in Handlers |-> IF h = "h1" THEN "sh_size" ELSE "off"]
          /\ \E s \in 0..MaxSize \cup {None} : \E S \in 0..MaxSize \cup {None} :
             \E C \in 0..MaxChunk \cup {None} :
                ctx = [h \in Handlers |-> [s |-> s, S |-> S, C |-> C, size |-> None]]
       \/ /\ pc = [h \in Handlers |-> IF h = "h1" THEN "sh_close" ELSE "off"]
          /\ \E p \in ShellProcesses :
                ctx = [h \in Handlers |-> [given |-> p, shell |-> p,
                                           session |-> "open"]]
       \/ /\ pc = [h \in Handlers |-> IF h = "h1" THEN "sh_get" ELSE "off"]
          /\ \E k \in Keys : \E o \in Contents : \E e \in BOOLEAN :
                ctx = [h \in Handlers |-> [key |-> k, content |-> o, eof |-> e]]
    /\ dst = [h \in Handlers |-> NoDst]
    /\ res = [h \in Handlers |-> NoCall]
    /\ prev = [h \in Handlers |-> NoCall]
    /\ calls = [h \in Handlers |-> 0]
    /\ faults = 0

\* self._run(cmd, no_output, check): the result is the call's outcome, out
\* what it returned or, when it raised, the lines it had read
ShellRun(h) ==
    /\ pc[h] = "sh_call"
    /\ LET c == ctx[h]
           r == IF c.eof
                THEN RunToEof(stream[h], c.output, c.call.no_output, c.call.check)
                ELSE Run(stream[h], c.output, c.success, c.call.no_output,
                         c.call.check)
       IN  /\ stream' = [stream EXCEPT ![h] = r.rest]
           /\ ctx' = [ctx EXCEPT ![h].out = r.out]
           /\ Finish(h, Result(c.call.cmd, "", r.status, ""),
                     IF r.status = "hang" THEN "hung" ELSE "sh_done")
    /\ UNCHANGED <<storeVars, cfgVars, read_only, dst, calls, faults>>

\* SSHRemoteIO.get(src, dst) of an existing remote file: `cat src` is
\* written to the shell and prints the file; with a size from the key the
\* read loop takes what arrives until it has that many bytes, without one
\* the file is copied by self.ssh.get.  When the shell ends after cat, read1()
\* returns b'' at once, every time
ShellGet(h) ==
    /\ pc[h] = "sh_get"
    /\ LET c == ctx[h]
           size == DownloadSize(KeyFields(c.key))
           cat == stream[h] \o c.content
           rd == ReadSized(cat, size.size, << >>)
       IN  IF size.size = None
           THEN /\ stream' = [stream EXCEPT ![h] = cat]
                /\ dst' = [dst EXCEPT ![h] = FileOf(c.content)]
                /\ Finish(h, Result("get", c.key, "ok", ""), "sh_done")
           ELSE /\ stream' = [stream EXCEPT ![h] = rd.rest]
                /\ dst' = [dst EXCEPT ![h] = FileOf(rd.data)]
                /\ Finish(h, Result("get", c.key, IF rd.hang THEN "hang" ELSE "ok", ""),
                          IF rd.hang THEN "hung" ELSE "sh_done")
    /\ UNCHANGED <<storeVars, cfgVars, read_only, ctx, calls, faults>>

\* self._get_download_size_from_key(key) for a chunk key
ShellSize(h) ==
    /\ pc[h] = "sh_size"
    /\ LET c == ctx[h]
           r == DownloadSize(ChunkKeyFields(c.s, c.S, c.C))
       IN  /\ ctx' = [ctx EXCEPT ![h].size = r.size]
           /\ Finish(h, Result("size", "", IF r.ok THEN "ok" ELSE "error", ""),
                     "sh_done")
    /\ UNCHANGED <<storeVars, cfgVars, read_only, stream, dst, calls, faults>>

\* SSHRemoteIO.close(): write "exit" and flush (BrokenPipeError when the
\* process has exited), shell.wait(timeout=0.5) (returns the exit code, or
\* raises TimeoutExpired: it never returns None), terminate() when the exit
\* code is None, then sshmanager.close(); an exception ends close() where it
\* is raised
ShellClose(h) ==
    /\ pc[h] = "sh_close"
    /\ LET p == ctx[h].shell
           written == p # "dead"
           exitcode == IF written /\ p = "exits" THEN 0 ELSE None
           waited == written /\ p = "exits"
           terminated == waited /\ exitcode = None
           released == waited
       IN  /\ ctx' = [ctx EXCEPT
                        ![h].shell = IF waited \/ terminated THEN "dead" ELSE p,
                        ![h].session = IF released THEN "released" ELSE "open"]
           /\ Finish(h, Result("close", "",
                               IF ~written THEN "brokenpipe"
                               ELSE IF ~waited THEN "timeout" ELSE "ok", ""),
                     "sh_done")
    /\ UNCHANGED <<storeVars, cfgVars, read_only, stream, dst, calls, faults>>

NextShell ==
    \E h \in Handlers :
        ShellRun(h) \/ ShellGet(h) \/ ShellSize(h) \/ ShellClose(h)

SpecShell == InitShell /\ [][NextShell]_vars

(***************************************************************************)
(* Configuration: initremote() and prepare() from what git config prints   *)
(* and what git-annex has stored for the remote.  A Python value is << >>  *)
(* for None and <<text>> for a string, a text being a sequence of bytes;   *)
(* "/b" (47, 98) is the text of BasePath.                                  *)
(***************************************************************************)
\* None, or the stdout of `git config --get`
GitOutputs(texts) == {<< >>} \cup {<<x>> : x \in texts}
GitBasePaths ==
    GitOutputs({<<NL>>, <<32, NL>>, <<47, 98, NL>>, <<32, 47, 98, 32, NL>>,
                <<98, NL>>, <<47, 97, NL>>})
GitHosts == GitOutputs({<<NL>>, <<48, NL>>, <<104, NL>>})
\* self.annex.getconfig(...): '' when the setting is not stored
AnnexBasePaths == {<< >>, <<32>>, <<47, 98>>, <<98>>, <<32, 47, 98>>, <<47, 97>>}
AnnexHosts == {<< >>, <<104>>}
AnnexArchiveIds == {<< >>, <<97>>}
\* output of git config for datalad.dataset.id in .datalad/config
GitDatasetIds == GitOutputs({<<NL>>, <<100, NL>>})
\* self.annex.getuuid(): the text "u"
UuidText == <<117>>

\* _get_gitcfg: the stripped output, None when git config fails
GetGitCfg(stdout) == IF stdout = << >> THEN << >> ELSE <<Strip(stdout[1])>>

\* `not value` for None and strings
Falsy(v) == v = << >> \/ v[1] = << >>

\* Path(text).is_absolute()
IsAbsolute(text) == text # << >> /\ text[1] = 47

\* the text "/b" of BasePath, where the store is; "/a" (47, 97) is a place
\* where no store is, such as the place the store was moved away from
BaseText == <<47, 98>>

ConfigError(msg) == [ok |-> FALSE, msg |-> msg, host |-> << >>, base |-> << >>]

\* _load_cfg and _verify_config without the test of the path
VerifyConfigMutant(c, fail_noid) ==
    LET loaded == GetGitCfg(c.git_base)
        stripped == IF ~Falsy(loaded) THEN <<Strip(loaded[1])>> ELSE loaded
        base == IF Falsy(stripped) THEN <<c.annex_base>> ELSE stripped
        storage_host == GetGitCfg(c.git_host)
        host == IF Falsy(storage_host) THEN <<c.annex_host>>
                ELSE IF storage_host = << <<48>> >> THEN << >> ELSE storage_host
    IN  IF Falsy(base) THEN ConfigError("nobase")
        ELSE IF fail_noid /\ c.archive_id = << >> THEN ConfigError("noid")
        ELSE [ok |-> TRUE, msg |-> "", host |-> host, base |-> base[1]]

\* _load_cfg and _verify_config without the special value '0' of ssh-host
VerifyConfigKeepsZero(c, fail_noid) ==
    LET loaded == GetGitCfg(c.git_base)
        stripped == IF ~Falsy(loaded) THEN <<Strip(loaded[1])>> ELSE loaded
        base == IF Falsy(stripped) THEN <<c.annex_base>> ELSE stripped
        storage_host == GetGitCfg(c.git_host)
        host == IF Falsy(storage_host) THEN <<c.annex_host>> ELSE storage_host
    IN  IF Falsy(base) THEN ConfigError("nobase")
        ELSE IF ~IsAbsolute(base[1]) THEN ConfigError("relative")
        ELSE IF fail_noid /\ c.archive_id = << >> THEN ConfigError("noid")
        ELSE [ok |-> TRUE, msg |-> "", host |-> host, base |-> base[1]]

\* _load_cfg and _verify_config with the stored base-path tried first
VerifyConfigStoredFirst(c, fail_noid) ==
    LET loaded == GetGitCfg(c.git_base)
        stripped == IF ~Falsy(loaded) THEN <<Strip(loaded[1])>> ELSE loaded
        base == IF Falsy(<<c.annex_base>>) THEN stripped ELSE <<c.annex_base>>
        storage_host == GetGitCfg(c.git_host)
        host == IF Falsy(storage_host) THEN <<c.annex_host>>
                ELSE IF storage_host = << <<48>> >> THEN << >> ELSE storage_host
    IN  IF Falsy(base) THEN ConfigError("nobase")
        ELSE IF ~IsAbsolute(base[1]) THEN ConfigError("relative")
        ELSE IF fail_noid /\ c.archive_id = << >> THEN ConfigError("noid")
        ELSE [ok |-> TRUE, msg |-> "", host |-> host, base |-> base[1]]

\* _load_cfg and _verify_config
VerifyConfig(c, fail_noid) ==
    LET loaded == GetGitCfg(c.git_base)
        stripped == IF ~Falsy(loaded) THEN <<Strip(loaded[1])>> ELSE loaded
        base == IF Falsy(stripped) THEN <<c.annex_base>> ELSE stripped
        storage_host == GetGitCfg(c.git_host)
        host == IF Falsy(storage_host) THEN <<c.annex_host>>
                ELSE IF storage_host = << <<48>> >> THEN << >> ELSE storage_host
    IN  IF Falsy(base) THEN ConfigError("nobase")
        ELSE IF ~IsAbsolute(base[1]) THEN ConfigError("relative")
        ELSE IF fail_noid /\ c.archive_id = << >> THEN ConfigError("noid")
        ELSE [ok |-> TRUE, msg |-> "", host |-> host, base |-> base[1]]

Configs ==
    [git_base : GitBasePaths, annex_base : AnnexBasePaths,
     git_host : GitHosts, annex_host : AnnexHosts,
     archive_id : AnnexArchiveIds, datalad_id : GitDatasetIds]

\* _get_datalad_id: None, or the stripped output
GetDataladId(stdout) ==
    IF GetGitCfg(stdout) = << >> THEN << >> ELSE <<Strip(GetGitCfg(stdout)[1])>>

\* the archive id of initremote that always takes the dataset id
InitArchiveIdMutant(c) ==
    IF ~Falsy(GetDataladId(c.datalad_id)) THEN GetDataladId(c.datalad_id)[1]
    ELSE UuidText

\* the archive id that initremote stores: the configured one, else the
\* dataset id, else the uuid of the remote
InitArchiveId(c) ==
    IF ~Falsy(<<c.archive_id>>) THEN c.archive_id
    ELSE IF ~Falsy(GetDataladId(c.datalad_id)) THEN GetDataladId(c.datalad_id)[1]
    ELSE UuidText

\* calls a handler makes after prepare
ConfigCalls == 1

\* one handler that is asked for initremote or prepare, no backend chosen yet
InitConfig ==
    /\ \E st \in {[d |-> {}, f |-> << >>], StoreWith(FALSE, << >>, << >>),
                  ClaimedStore, StockedStore} :
          dirs = st.d /\ files = st.f
    /\ archive = [exists |-> FALSE, members |-> << >>]
    /\ \E first \in {"c_prepare", "c_initremote"} :
          pc = [h \in Handlers |-> IF h = "h1" THEN first ELSE "off"]
    /\ io = [h \in Handlers |-> "none"]
    /\ uuid = [h \in Handlers |-> "u1"]
    /\ force_write \in [Handlers -> {"", "true"}]
    /\ force_write["h2"] = ""
    /\ calls = [h \in Handlers |-> IF h = "h1" THEN ConfigCalls ELSE 0]
    /\ faults = MaxFaults
    /\ dirs0 = dirs
    /\ files0 = files
    /\ read_only = [h \in Handlers |-> FALSE]
    /\ stream = [h \in Handlers |-> << >>]
    /\ \E c \in Configs :
          \* prepare does not ask for the dataset id
          /\ pc["h1"] = "c_prepare" => c.datalad_id = << >>
          /\ ctx = [h \in Handlers |-> c]
    /\ dst = [h \in Handlers |-> NoDst]
    /\ res = [h \in Handlers |-> NoCall]
    /\ prev = [h \in Handlers |-> NoCall]

\* initremote(): the configuration is verified, and an archive id is found
\* (the stored one, else the dataset id or the remote's uuid) and stored
InitRemote(h) ==
    /\ pc[h] = "c_initremote"
    /\ LET v == VerifyConfig(ctx[h], FALSE)
       IN  IF ~v.ok
           THEN /\ Finish(h, Result("initremote", "", "error", v.msg), "failed")
                /\ UNCHANGED ctx
           ELSE /\ ctx' = [ctx EXCEPT ![h].archive_id = InitArchiveId(ctx[h])]
                /\ Finish(h, Result("initremote", "", "ok", ""), "c_done")
    /\ UNCHANGED <<storeVars, cfgVars, read_only, stream, dst, calls, faults>>

\* prepare() up to the layout version gate: the configuration is verified
\* and the backend chosen
ConfigPrepare(h) ==
    /\ pc[h] = "c_prepare"
    /\ LET v == VerifyConfig(ctx[h], TRUE)
       IN  IF ~v.ok
           THEN /\ PrepareFails(h, v.msg)
                /\ UNCHANGED io
           ELSE /\ io' = [io EXCEPT ![h] = IF Falsy(v.host) THEN "local" ELSE "ssh"]
                /\ IF v.base = BaseText
                   THEN /\ ctx' = [ctx EXCEPT ![h] = [NoCtx EXCEPT !.lvl = 1]
                                        @@ [base |-> v.base] @@ ctx[h]]
                        /\ Goto(h, "g_read")
                   ELSE \* every path of the handler lies under another
                        \* directory: the store at BasePath is out of its reach
                        /\ ctx' = [ctx EXCEPT ![h] = NoCtx @@ [base |-> v.base]
                                        @@ ctx[h]]
                        /\ Finish(h, Result("prepare", "", "away", ""), "c_away")
    /\ UNCHANGED <<storeVars, archive, dirs0, files0, uuid, force_write,
                   read_only, stream, dst, calls, faults>>

NextConfig ==
    \E h \in Handlers :
        \/ InitRemote(h)
        \/ ConfigPrepare(h)
        \/ GetCost(h)
        \/ TransferRetrieve(h)
        \/ GateRead(h)
        \/ GateExists(h)
        \/ GateMkdir(h)
        \/ GateWrite(h)

SpecConfig == InitConfig /\ [][NextConfig]_vars

(***************************************************************************)
(* Properties.                                                             *)
(***************************************************************************)
StorePcs == {"st_mkdir", "st_check", "st_put", "st_write", "st_rename", "st_cleanup"}
RemovePcs == {"rm_file", "rm_dir"}
K1 == "MD5E-s2--k1"

\* h is in, or has made, a transfer_store of key
Stores(h, key) ==
    \/ pc[h] \in StorePcs /\ ctx[h].key = key
    \/ res[h].op = "store" /\ res[h].key = key
    \/ prev[h].op = "store" /\ prev[h].key = key

\* h has so far only prepared, checked presence and retrieved
OnlyReads(h) ==
    /\ pc[h] \notin StorePcs \cup RemovePcs
    /\ res[h].op \in {"none", "prepare", "checkpresent", "retrieve"}
    /\ prev[h].op \in {"none", "prepare", "checkpresent", "retrieve"}

\* no backend fault has been injected so far
NoFault == faults = MaxFaults

\* the object of a key that one handler stores, while the others only read,
\* is whole or absent, and absent after a failed store
C1_ObjectWholeOrAbsent ==
    \A h \in Handlers : \A key \in Keys :
        ( /\ calls[h] = ConcCalls - 1
          /\ Stores(h, key)
          /\ \A g \in Handlers \ {h} : OnlyReads(g) )
        => /\ HasObject(key) => /\ ObjectData(key) = Payload(h, key)
                                /\ files[ObjPath(key)].writers = {}
           /\ (res[h].op = "store" /\ res[h].status \in {"error", "raised"})
                 => ~HasObject(key)

\* a step in which an object appears is the rename of its staging file
C1_AppearsByRename ==
    \A key \in Keys :
        (~HasObject(key) /\ HasObject(key)') =>
            \E h \in Handlers :
                /\ pc[h] = "st_rename"
                /\ ctx[h].key = key
                /\ IsFile(TmpPath(uuid[h], key))
                /\ files'[ObjPath(key)] = files[TmpPath(uuid[h], key)]
                /\ ~IsFile(TmpPath(uuid[h], key))'

\* C1: while one handler makes one transfer_store(key, f) and the other
\* handlers only check presence and retrieve, the object path of the key
\* either does not exist or holds all the bytes of f; after a failed store it
\* does not exist; and an object only ever appears by the rename of a staging
\* file that is closed and holds all of f.
C1_AtomicStore == []C1_ObjectWholeOrAbsent /\ [][C1_AppearsByRename]_vars

\* a transfer of h1 is half written while h2 is inside a checkpresent of the
\* same key
C1_Witness ==
    /\ pc["h1"] = "st_write" /\ ctx["h1"].off = 1 /\ ctx["h1"].key = K1
    /\ pc["h2"] = "cp_arch" /\ ctx["h2"].key = K1
    /\ res["h2"].op = "prepare"

\* C2: a handler that stores a key and then retrieves it, with nothing in
\* between, gets back the bytes it stored: whenever both calls return
\* success, and, when no backend command fails, always; on both backends.
C2_RoundTrip ==
    \A h \in Handlers : \A key \in Keys :
        ( /\ prev[h] = Result("store", key, "ok", "")
          /\ res[h].op = "retrieve" /\ res[h].key = key )
        => /\ res[h].status = "ok" => dst[h] = FileOf(Payload(h, key))
           /\ NoFault => res[h].status = "ok"

C2_Witness ==
    /\ io["h1"] = "ssh"
    /\ prev["h1"] = Result("store", K1, "ok", "")
    /\ res["h1"] = Result("retrieve", K1, "ok", "")
    /\ dst["h1"] = FileOf(<<65, 10>>)

\* in this step h starts a transfer_store or a remove
BeginsWrite(h) ==
    /\ calls'[h] # calls[h]
    /\ \/ pc'[h] \in StorePcs \cup RemovePcs
       \/ pc'[h] \in {"idle", "hung", "crashed"} /\ res'[h].op \in {"store", "remove"}

\* such a step of a read-only handler ends the call with the read-only error
\* and changes nothing on the store or in the shell
C3_Step ==
    \A h \in Handlers :
        (read_only[h] /\ BeginsWrite(h))
        => ( /\ pc'[h] = "idle"
             /\ res'[h].status = "error" /\ res'[h].msg = "readonly"
             /\ UNCHANGED <<dirs, files, stream>> )

\* C3: a transfer_store or remove started by a handler whose read-only flag
\* is set ends in that step with the read-only error, and leaves the
\* directories and files of the store and the shell stream as they were.
C3_ReadOnlyRejects == [][C3_Step]_vars

\* the gate has set read-only for an unsupported version in the store-root
\* marker, and a transfer_store has been rejected
C3_Witness ==
    /\ force_write["h1"] = ""
    /\ VersionFile(1) \in DOMAIN files0
    /\ files0[VersionFile(1)].data = <<50, 10>>
    /\ read_only["h1"]
    /\ res["h1"] = ReadOnlyError("store", K1)

\* the state the gate finds a marker in when the handler runs alone: the
\* marker file with an unsupported version, or missing in an existing directory
FoundUnsupported(lvl) ==
    /\ VersionFile(lvl) \in DOMAIN files0
    /\ Strip(files0[VersionFile(lvl)].data) # SupportedVersion
FoundMissing(lvl) ==
    /\ VersionFile(lvl) \notin DOMAIN files0
    /\ IsDirIn(dirs0, Parent(VersionFile(lvl)))

BothMarkersSupported ==
    \A lvl \in {1, 2} :
        /\ IsFile(VersionFile(lvl))
        /\ Strip(files[VersionFile(lvl)].data) = SupportedVersion

\* C5: when neither base_path nor the repository directory exists, a prepare
\* that returns has made both directories and both marker files, each with
\* the supported version; the handler is read-write, and a transfer_store
\* that follows with no backend fault succeeds and places the object.
C5_ClaimsNewStore ==
    \A h \in Handlers :
        (dirs0 = {} /\ Prepared(h))
        => /\ IsDir(BasePath) /\ IsDir(DsGitDir)
           /\ BothMarkersSupported
           /\ ~read_only[h]
           /\ \A key \in Keys :
                (prev[h].op = "prepare" /\ res[h].op = "store"
                    /\ res[h].key = key /\ NoFault /\ pc[h] = "idle")
                => /\ res[h].status = "ok"
                   /\ HasObject(key) /\ ObjectData(key) = Payload(h, key)

C5_Witness ==
    /\ dirs0 = {}
    /\ prev["h1"] = Result("prepare", "", "ok", "")
    /\ res["h1"] = Result("store", K1, "ok", "")
    /\ HasObject(K1)

\* C6: when base_path exists as an empty directory without markers, a prepare
\* that returns has left both marker files with the supported version and the
\* handler read-write.
C6_EmptyBaseClaimed ==
    \A h \in Handlers :
        (dirs0 = {BasePath} /\ DOMAIN files0 = {} /\ Prepared(h)
            /\ ~Truthy(force_write[h]))
        => BothMarkersSupported /\ ~read_only[h]

\* C7: with force-write configured the read-only flag is never set; a
\* transfer_store that follows prepare, with no backend fault and a free
\* staging path, succeeds, and a transfer_retrieve of that key then returns
\* the bytes stored.
C7_ForceWrite ==
    \A h \in Handlers :
        Truthy(force_write[h])
        => /\ ~read_only[h]
           /\ \A key \in Keys :
                /\ (prev[h].op = "prepare" /\ res[h].op = "store"
                        /\ res[h].key = key /\ NoFault /\ pc[h] = "idle"
                        /\ TmpPath(uuid[h], key) \notin DOMAIN files0)
                   => res[h].status = "ok" /\ HasObject(key)
                /\ (prev[h] = Result("store", key, "ok", "") /\ NoFault
                        /\ res[h].op = "retrieve" /\ res[h].key = key)
                   => res[h].status = "ok" /\ dst[h] = FileOf(Payload(h, key))

\* with force-write, a store whose repository marker holds an unsupported
\* version and whose store-root marker is missing has taken a key and given
\* it back
C7_Witness ==
    /\ force_write["h1"] = "true"
    /\ FoundMissing(1) /\ FoundUnsupported(2)
    /\ prev["h1"] = Result("store", K1, "ok", "")
    /\ res["h1"] = Result("retrieve", K1, "ok", "")
    /\ dst["h1"] = FileOf(Payload("h1", K1))

\* the handler is past the staging check of a store of key
PastCheck(h, key) ==
    /\ pc[h] \in {"st_put", "st_write", "st_rename", "st_cleanup"}
    /\ ctx[h].key = key

\* C8: a transfer_store that starts with its staging path occupied ends with
\* the 'upload already in progress' error and leaves the staging file as it
\* found it.
C8_OccupiedStagingRejected ==
    \A h \in Handlers : \A key \in Keys :
        LET tmp == TmpPath(uuid[h], key)
        IN  (/\ tmp \in DOMAIN files0
             /\ prev[h].op = "prepare" /\ ~read_only[h] /\ NoFault
             /\ res[h].op = "store" /\ res[h].key = key
             /\ pc[h] \in {"idle", "hung", "crashed"})
            => /\ res[h] = Result("store", key, "error", "inprogress")
               /\ IsFile(tmp) /\ files[tmp] = files0[tmp]

\* C9: of two transfer_store calls for one key under one remote UUID that
\* overlap, the later one fails at the staging check, so the two are never
\* both past that check.
C9_OneStagingWriter ==
    \A key \in Keys :
        ~(/\ uuid["h1"] = uuid["h2"]
          /\ PastCheck("h1", key) /\ PastCheck("h2", key))

\* C10: a transfer_retrieve of a key that is neither in the object tree nor
\* in the archive ends with the error that names both failures.
C10_MissingKeyFails ==
    \A h \in Handlers : \A key \in Keys :
        (/\ res[h].op = "retrieve" /\ res[h].key = key
         /\ pc[h] \in {"idle", "hung", "crashed"}
         /\ ~HasObject(key) /\ ~InArchive(key))
        => res[h] = Result("retrieve", key, "error", "both")

\* h has finished (or is stuck in) a call of op for key
Ended(h, op, key) ==
    /\ res[h].op = op /\ res[h].key = key
    /\ pc[h] \in {"idle", "hung", "crashed"}

\* C11: for a key that is a member of the archive and has no object file,
\* checkpresent answers true and transfer_retrieve succeeds with the
\* member's bytes in the target file, on both backends.
C11_ArchiveOnlyKey ==
    \A h \in Handlers : \A key \in Keys :
        (~HasObject(key) /\ InArchive(key) /\ NoFault)
        => /\ Ended(h, "checkpresent", key) => res[h].status = "true"
           /\ Ended(h, "retrieve", key)
                => /\ res[h].status = "ok"
                   /\ dst[h] = FileOf(archive.members[key])

ReadOps == {"checkpresent", "retrieve"}

\* C12: a read-only handler and a read-write handler of the same remote that
\* make the same checkpresent or transfer_retrieve call on a store nobody
\* writes to get the same result and the same target file; the read-only
\* handler is never refused a read.
C12_ReadsIgnoreReadOnly ==
    \A op \in ReadOps : \A key \in Keys :
        ( /\ read_only["h1"] /\ ~read_only["h2"]
          /\ OnlyReads("h1") /\ OnlyReads("h2") /\ NoFault
          /\ prev["h1"].op = "prepare" /\ prev["h2"].op = "prepare"
          /\ Ended("h1", op, key) /\ Ended("h2", op, key) )
        => /\ res["h1"] = res["h2"]
           /\ dst["h1"] = dst["h2"]
           /\ res["h1"].msg # "readonly"

\* on a store whose directories exist without marker files, the read-only
\* handler and the read-write one have both retrieved a key from the archive
C12_Witness ==
    /\ ~(VersionFile(1) \in DOMAIN files0) /\ ~(VersionFile(2) \in DOMAIN files0)
    /\ DsGitDir \in dirs0
    /\ read_only["h1"] /\ ~read_only["h2"]
    /\ res["h1"] = Result("retrieve", K1, "ok", "")
    /\ res["h2"] = Result("retrieve", K1, "ok", "")
    /\ dst["h1"] = FileOf(<<67, 67>>) /\ dst["h2"] = dst["h1"]

\* C13: checkpresent answers true exactly when the object file exists or the
\* archive holds the key's member, and answers false, without an error, when
\* neither is the case.
C13_CheckPresentIff ==
    \A h \in Handlers : \A key \in Keys :
        Ended(h, "checkpresent", key)
        => res[h].status = IF HasObject(key) \/ InArchive(key)
                           THEN "true" ELSE "false"

\* the result of a remove of key that succeeded
Removed(key) == Result("remove", key, "ok", "")

\* C14: a remove, by a read-write handler, of a key that has no object file,
\* from the start or since the handler's own remove just before, succeeds.
C14_RemoveAbsentKey ==
    \A h \in Handlers : \A key \in Keys :
        ( /\ Ended(h, "remove", key) /\ ~read_only[h]
          /\ \/ /\ prev[h].op \in {"prepare"} \cup ReadOps
                /\ ObjPath(key) \notin DOMAIN files0
             \/ prev[h] = Removed(key) )
        => res[h].status = "ok"

\* C15: a command run through the shared shell that prints its output and
\* then the FAIL marker raises the command-failed error with that output; one
\* that prints its output and then the OK marker returns that output.
C15_SentinelOutcome ==
    \A h \in Handlers :
        (res[h].op \in {c.cmd : c \in ShellCommands} /\ ~ctx[h].eof)
        => /\ res[h].status = IF ctx[h].success THEN "ok" ELSE "failed"
           /\ ctx[h].out = ctx[h].output

\* C16: when the shell process ends while a command's end marker or the
\* bytes of a get are awaited, the call ends with a transport error: it does
\* not wait for ever and reports neither success nor a failed command.
C16_EofIsTransportError ==
    \A h \in Handlers :
        (res[h].op \in {c.cmd : c \in ShellCommands} \cup {"get"} /\ ctx[h].eof
            /\ (res[h].op = "get" =>
                    /\ DownloadSize(KeyFields(ctx[h].key)).size # None
                    /\ Len(ctx[h].content) < DownloadSize(KeyFields(ctx[h].key)).size))
        => res[h].status = "transport"

\* C17: SSH get for a key with a determinable length N puts exactly N bytes
\* into the target file and takes exactly N bytes off the shell's output,
\* whatever the remote file holds; for a key without one it copies the file
\* and leaves the shared shell alone.
C17_GetReadsExactly ==
    \A h \in Handlers :
        (res[h].op = "get" /\ ~ctx[h].eof)
        => LET n == DownloadSize(KeyFields(ctx[h].key)).size
               content == ctx[h].content
           IN  IF n # None
               THEN /\ res[h].status = "ok"
                    /\ Len(dst[h].data) = n
                    /\ dst[h].data \o stream[h] = content
               ELSE /\ res[h].status = "ok"
                    /\ dst[h] = FileOf(content)
                    /\ stream[h] = << >>

\* the number of bytes of a file of s bytes that lie in piece number C when
\* the file is cut into pieces of S bytes, the pieces counted from `first`
PieceBytes(s, S, C, first) ==
    Cardinality({o \in 0..(s - 1) : o \div S = C - first})

\* the claim as stated: chunk C has S bytes when C < floor(s/S) and s mod S
\* bytes when C = floor(s/S)
C18_ChunkLengthAsStated ==
    \A h \in Handlers :
        (res[h].op = "size" /\ ctx[h].S >= 1 /\ ctx[h].C <= ctx[h].s \div ctx[h].S)
        => /\ res[h].status = "ok"
           /\ ctx[h].size = IF ctx[h].C < ctx[h].s \div ctx[h].S
                            THEN ctx[h].S ELSE ctx[h].s % ctx[h].S

\* C18: with chunks counted from 1, the byte length computed for chunk C of a
\* key of total size s and chunk size S is S when C <= floor(s/S) and s mod S
\* when C = floor(s/S) + 1, which is the number of bytes of the file that lie
\* in that chunk.
C18_ChunkLength ==
    \A h \in Handlers :
        (res[h].op = "size" /\ ctx[h].S >= 1
            /\ ctx[h].C >= 1 /\ ctx[h].C <= ctx[h].s \div ctx[h].S + 1)
        => /\ res[h].status = "ok"
           /\ ctx[h].size = IF ctx[h].C <= ctx[h].s \div ctx[h].S
                            THEN ctx[h].S ELSE ctx[h].s % ctx[h].S
           /\ ctx[h].size = PieceBytes(ctx[h].s, ctx[h].S, ctx[h].C, 1)

\* the last chunk, number 3, of a key of 5 bytes in chunks of 2 has 1 byte
C18_Witness ==
    /\ res["h1"] = Result("size", "", "ok", "")
    /\ ctx["h1"].s = 5 /\ ctx["h1"].S = 2 /\ ctx["h1"].C = 3
    /\ ctx["h1"].size = 1

\* C19: after close() of the SSH backend has run, the shell process is no
\* longer running and the transport session has been released, whether the
\* shell exits within the timeout, does not exit in time, or was already dead.
C19_CloseTearsDown ==
    \A h \in Handlers :
        res[h].op = "close"
        => ctx[h].shell = "dead" /\ ctx[h].session = "released"

\* the base-path text that a configuration yields: what git config printed,
\* white space aside, and the stored setting when that is nothing
BasePathText(c) ==
    IF c.git_base # << >> /\ Strip(c.git_base[1]) # << >>
    THEN Strip(c.git_base[1]) ELSE c.annex_base

NoUsableBasePath(c) ==
    BasePathText(c) = << >> \/ Head(BasePathText(c)) # 47

Configuring(h) == pc[h] \in {"c_prepare", "c_initremote"}

\* C20: initremote and prepare fail with an error, select no backend and
\* touch no store, whenever neither git config nor the stored configuration
\* gives a base-path, or the base-path is not absolute.
C20_BadBasePathFails ==
    /\ [][\A h \in Handlers :
            (Configuring(h) /\ pc'[h] # pc[h] /\ NoUsableBasePath(ctx[h]))
            => /\ pc'[h] = "failed"
               /\ res'[h].status = "error"
               /\ res'[h].msg \in {"nobase", "relative"}
               /\ io'[h] = "none"
               /\ dirs' = dirs /\ files' = files /\ stream' = stream]_vars
    /\ [](\A h \in Handlers :
            (pc[h] = "failed" /\ res[h].msg \in {"nobase", "relative"})
            => io[h] = "none" /\ dirs = dirs0 /\ files = files0)

\* prepare has failed over the relative base-path "b" of the stored
\* configuration, next to a store that exists
C20_Witness ==
    /\ pc["h1"] = "failed"
    /\ res["h1"] = Result("prepare", "", "error", "relative")
    /\ ctx["h1"].git_base = << >> /\ ctx["h1"].annex_base = <<98>>
    /\ io["h1"] = "none"
    /\ dirs = ClaimedStore.d

\* what git config printed for ssh-host, white space aside; nothing when it
\* printed nothing or failed
GitHostText(c) == IF c.git_host = << >> THEN << >> ELSE Strip(c.git_host[1])

\* h has chosen its backend
BackendChosen(h) == io[h] # "none"

\* C21: with ssh-host '0' in the git configuration the local backend is used
\* (and the local cost reported) even if the stored configuration names a
\* host; with no ssh-host from either source the local backend is used; with
\* a host from either source the SSH backend is used.
C21_HostSelectsBackend ==
    \A h \in Handlers :
        BackendChosen(h)
        => /\ GitHostText(ctx[h]) = <<48>> => io[h] = "local"
           /\ (GitHostText(ctx[h]) = << >> /\ ctx[h].annex_host = << >>)
                => io[h] = "local"
           /\ (GitHostText(ctx[h]) \notin {<< >>, <<48>>}
                \/ (GitHostText(ctx[h]) = << >> /\ ctx[h].annex_host # << >>))
                => io[h] = "ssh"
           /\ res[h].op = "getcost"
                => res[h].status = IF io[h] = "local" THEN "100" ELSE "200"

\* git config says '0', the stored configuration names host "h", and the
\* handler has reported the local cost
C21_Witness ==
    /\ GitHostText(ctx["h1"]) = <<48>>
    /\ ctx["h1"].annex_host = <<104>>
    /\ io["h1"] = "local"
    /\ res["h1"] = Result("getcost", "", "100", "")

\* what git config printed for base-path, white space aside
GitBaseText(c) == IF c.git_base = << >> THEN << >> ELSE Strip(c.git_base[1])

LayoutObjects == <<"base", "abc", "def", "annex", "objects">>

\* the layout of a directory-type store below its directory:
\* <dirhash_lower(key)>/<key>/<key>
DirectoryStorePath(key) == DirHash(key) \o <<key, key>>

\* a file below annex/objects
ObjectFiles == {p \in DOMAIN files : Len(p) > Len(LayoutObjects)
                    /\ SubSeq(p, 1, Len(LayoutObjects)) = LayoutObjects}

DatasetIdText(c) == IF c.datalad_id = << >> THEN << >> ELSE Strip(c.datalad_id[1])

\* C24: initremote always leaves a non-empty archive-id configured and never
\* replaces one that was configured: an existing value is kept, otherwise the
\* dataset id is used, otherwise the uuid of the remote; prepare on a remote
\* without archive-id fails with an error.
C24_ArchiveId ==
    /\ [][\A h \in Handlers :
            (pc[h] = "c_initremote" /\ pc'[h] = "c_done")
            => /\ ctx'[h].archive_id # << >>
               /\ ctx[h].archive_id # << >>
                    => ctx'[h].archive_id = ctx[h].archive_id
               /\ (ctx[h].archive_id = << >> /\ DatasetIdText(ctx[h]) # << >>)
                    => ctx'[h].archive_id = DatasetIdText(ctx[h])
               /\ (ctx[h].archive_id = << >> /\ DatasetIdText(ctx[h]) = << >>)
                    => ctx'[h].archive_id = UuidText]_vars
    /\ [](\A h \in Handlers :
            /\ pc[h] = "c_done" => ctx[h].archive_id # << >>
            /\ (ctx[h].archive_id = << >> /\ pc[h] \notin {"off", "c_prepare", "c_initremote"})
                => /\ pc[h] = "failed" /\ res[h].status = "error"
                   /\ io[h] = "none")

\* initremote found neither an archive-id nor a dataset id and has stored
\* the uuid of the remote
C24_Witness ==
    /\ pc["h1"] = "c_done"
    /\ res["h1"] = Result("initremote", "", "ok", "")
    /\ DatasetIdText(ctx["h1"]) = << >>
    /\ ctx["h1"].archive_id = UuidText

\* C25: whenever the gate claims a marker, the ria-layout-version file it
\* writes is the supported version string followed by exactly one newline,
\* on the local and on the SSH backend.
C25_MarkerOneNewline ==
    \A lvl \in {1, 2} :
        (VersionFile(lvl) \in DOMAIN files /\ VersionFile(lvl) \notin DOMAIN files0)
        => files[VersionFile(lvl)].data = SupportedVersion \o <<NL>>

\* C26: whenever transfer_store returns without error, the object is at its
\* final path and the staging path is gone, and a checkpresent that follows
\* answers true; a put or rename that fails makes transfer_store fail.
C26_StoreSuccessMeansStored ==
    \A h \in Handlers : \A key \in Keys :
        /\ (res[h] = Result("store", key, "ok", "") /\ pc[h] = "idle")
            => /\ HasObject(key)
               /\ ~PathExists(TmpPath(uuid[h], key))
        /\ (prev[h] = Result("store", key, "ok", "")
                /\ Ended(h, "checkpresent", key))
            => res[h].status = "true"

\* the next step of h writes a command with end markers to its shell: a call
\* of the SSH backend is about to start, or h is before a _run of the gate,
\* of transfer_store, of checkpresent or of remove
BeforeSentinelCommand(h) ==
    /\ io[h] = "ssh"
    /\ \/ CanCall(h)
       \/ pc[h] \in GatePcs \cup RemovePcs
                    \cup {"st_mkdir", "st_rename", "st_cleanup", "cp_arch"}

\* C27: whenever a command with end markers is about to be written to the
\* shared shell, the shell's output holds no unread bytes of earlier
\* activity; a get or get_from_archive that takes the unknown-size path or
\* fails leaves nothing pending.
C27_CleanStream ==
    \A h \in Handlers : BeforeSentinelCommand(h) => stream[h] = << >>

\* C28: the read-only flag starts false, changes only from false to true, and
\* only inside the layout version gate of prepare: transfer_store,
\* transfer_retrieve, checkpresent, remove, getcost and whereis leave it as
\* it is, whatever their outcome.
C28_ReadOnlySetOnceInGate ==
    /\ [](\A h \in Handlers : pc[h] \in {"new", "off"} => ~read_only[h])
    /\ [][\A h \in Handlers :
            read_only'[h] # read_only[h]
            => /\ ~read_only[h] /\ read_only'[h]
               /\ pc[h] \in GatePcs]_vars

\* a handler that the gate made read-only has since been refused a remove
\* and asked for its cost
C28_Witness ==
    /\ read_only["h1"]
    /\ prev["h1"] = Result("remove", K1, "error", "readonly")
    /\ res["h1"].op = "getcost"

\* C29: if the copy to the staging path or the rename to the final path
\* fails during transfer_store, then when transfer_store returns the staging
\* path is unoccupied and the error is the operation-failed error with the
\* diagnostic of the failure, also when the staging file was never created.
C29_FailedStoreCleansUp ==
    [][\A h \in Handlers :
        /\ (pc[h] = "st_cleanup" /\ pc'[h] # pc[h])
            => /\ res'[h] = Result("store", ctx[h].key, "error", "io")
               /\ pc'[h] = "idle"
               /\ TmpPath(uuid[h], ctx[h].key) \notin DOMAIN files'
        /\ (pc[h] = "st_rename" /\ pc'[h] = "idle")
            => \/ ObjPath(ctx[h].key) \in DOMAIN files'
                    /\ TmpPath(uuid[h], ctx[h].key) \notin DOMAIN files'
               \/ res'[h].status = "error"
                    /\ TmpPath(uuid[h], ctx[h].key) \notin DOMAIN files']_vars

\* a step of remove by h takes away nothing but the key's object file and
\* empty directories among its two nearest ancestors
RemoveTakesOnly(h) ==
    LET obj == ObjPath(ctx[h].key)
    IN  /\ DOMAIN files \ DOMAIN files' \subseteq {obj}
        /\ \A p \in DOMAIN files' : p \in DOMAIN files /\ files'[p] = files[p]
        /\ dirs' \subseteq dirs
        /\ \A d \in dirs \ dirs' :
              d \in {Ancestor(obj, 1), Ancestor(obj, 2)} /\ IsEmptyDir(d)

\* C30: remove(key) deletes only the key's object file and at most its two
\* nearest ancestor directories, each only when empty, and attempts no
\* further removal after the first directory removal that fails; the objects
\* of other keys stay as they are, on both backends.
C30_RemoveFrame ==
    [][\A h \in Handlers :
        pc[h] \in RemovePcs
        => /\ RemoveTakesOnly(h)
           /\ (pc[h] = "rm_dir"
                /\ ~IsEmptyDir(Ancestor(ObjPath(ctx[h].key), ctx[h].off + 1)))
                => pc'[h] # "rm_dir"]_vars

\* C31: if creating the parent directory or writing the marker fails while
\* the gate claims an uninitialized store, prepare fails with an error and
\* the handler is not prepared: it never goes on as if the marker had been
\* written, on both backends.
C31_ClaimFailureFailsPrepare ==
    \A h \in Handlers :
        (res[h].op = "prepare" /\ calls[h] = SeqCalls /\ ~NoFault)
        => /\ pc[h] = "failed"
           /\ res[h].status = "error"
           /\ ~Prepared(h)

\* on the SSH backend the mkdir of the base directory failed unnoticed and
\* the write of the marker then failed
C31_Witness ==
    /\ io["h1"] = "ssh"
    /\ dirs0 = {} /\ dirs = {}
    /\ faults < MaxFaults
    /\ pc["h1"] = "failed"
    /\ res["h1"] = Result("prepare", "", "error", "write_file")

\* C32: when handlers of different remote UUIDs store the same key at the
\* same time, their staging paths differ and lie outside annex/objects, no
\* store ends with 'upload already in progress', and, when no backend command
\* fails, a store that returned leaves at the object path all the bytes of
\* one of the transfers, closed.
C32_DistinctRemotesDontCollide ==
    \A key \in Keys :
        LET Under(d, p) == Len(p) >= Len(d) /\ SubSeq(p, 1, Len(d)) = d
        IN  ( /\ uuid["h1"] # uuid["h2"]
              /\ \A h \in Handlers :
                    calls[h] = ConcCalls - 1 /\ Stores(h, key) )
            => /\ TmpPath(uuid["h1"], key) # TmpPath(uuid["h2"], key)
               /\ \A h \in Handlers : ~Under(DsObjDir, TmpPath(uuid[h], key))
               /\ \A h \in Handlers :
                     res[h] # Result("store", key, "error", "inprogress")
               /\ ( /\ NoFault
                    /\ \E h \in Handlers :
                          res[h] = Result("store", key, "ok", "") )
                  => /\ HasObject(key)
                     /\ ObjectData(key) \in {Payload(h, key) : h \in Handlers}
                     /\ files[ObjPath(key)].writers = {}

\* h2's store of the key has returned and its bytes are the object while h1,
\* of the other remote, has its own staging file complete and not yet renamed
C32_Witness ==
    /\ uuid["h1"] # uuid["h2"]
    /\ res["h2"] = Result("store", K1, "ok", "")
    /\ pc["h1"] = "st_rename" /\ ctx["h1"].key = K1
    /\ IsFile(TmpPath(uuid["h1"], K1))
    /\ HasObject(K1) /\ ObjectData(K1) = Payload("h2", K1)

\* C33: when two handlers run prepare at the same time on a store whose
\* base_path does not exist yet, and no backend command fails, neither
\* prepare fails and neither handler is set read-only, in every interleaving.
C33_ConcurrentPrepareReadWrite ==
    (dirs0 = {} /\ NoFault)
    => \A h \in Handlers : pc[h] # "failed" /\ ~read_only[h]

\* a step of the gate of a handler that the gate has set read-only leaves
\* the directories and files of the store as they are
C34_Step ==
    \A h \in Handlers :
        (pc[h] \in GatePcs /\ read_only[h] /\ ~Truthy(force_write[h])
            /\ pc'[h] # pc[h])
        => dirs' = dirs /\ files' = files

\* C34: once the gate has set the handler read-only at the store-root marker,
\* with no force-write configured, the rest of prepare creates no directory
\* and writes no marker file under base_path.
C34_ReadOnlyGateWritesNothing == [][C34_Step]_vars

\* C35: a checkpresent(key) that a handler makes right after its remove(key)
\* returned without error answers false.
C35_RemovedMeansAbsent ==
    \A h \in Handlers : \A key \in Keys :
        ( /\ prev[h] = Result("remove", key, "ok", "")
          /\ res[h].op = "checkpresent" /\ res[h].key = key
          /\ pc[h] \in {"idle", "hung", "crashed"} )
        => res[h].status = "false"

\* C36: after a transfer_store of a key has returned without error the
\* staging path of the key is unoccupied, and a transfer_store of the same
\* key that the handler makes next is not rejected as 'upload already in
\* progress' and, when it returns without error, the object path holds all
\* the bytes again.
C36_StoreAgain ==
    \A h \in Handlers : \A key \in Keys :
        /\ (res[h] = Result("store", key, "ok", "") /\ pc[h] = "idle")
            => ~PathExists(TmpPath(uuid[h], key))
        /\ ( /\ prev[h] = Result("store", key, "ok", "")
             /\ res[h].op = "store" /\ res[h].key = key
             /\ pc[h] \in {"idle", "hung", "crashed"} )
            => /\ res[h].msg # "inprogress"
               /\ res[h].status = "ok"
                    => HasObject(key) /\ ObjectData(key) = Payload(h, key)

\* C37: with force-write configured as the text 'false', a prepare that
\* returns on a store where a marker was found with an unsupported version,
\* or missing in a directory that exists, has set the read-only flag.
C37_FalseDoesNotForce ==
    \A h \in Handlers :
        ( /\ Prepared(h)
          /\ force_write[h] = "false"
          /\ \E lvl \in {1, 2} : FoundUnsupported(lvl) \/ FoundMissing(lvl) )
        => read_only[h]

\* this step is one of a transfer_retrieve, checkpresent, getcost or whereis
\* of h: the call starts, goes on or returns
C38_ReadStep(h) ==
    \/ pc[h] \in {"rt_scp", "rt_arch", "cp_arch"} /\ pc'[h] # pc[h]
    \/ /\ pc[h] = "idle"
       /\ calls'[h] # calls[h]
       /\ \/ pc'[h] \in {"rt_scp", "rt_arch", "cp_arch"}
          \/ /\ pc'[h] \in {"idle", "hung", "crashed"}
             /\ res'[h].op \in {"retrieve", "checkpresent", "getcost", "whereis"}

\* C38: no step of a transfer_retrieve, checkpresent, getcost or whereis
\* changes the store: directories, files (objects, staging files and both
\* marker files) and the archive are after the step what they were before
\* it, whether the call succeeds, fails or does not return.
C38_ReadsLeaveStore ==
    [][\A h \in Handlers :
        C38_ReadStep(h)
        => dirs' = dirs /\ files' = files /\ archive' = archive]_vars

\* on the SSH backend a key has been found present and then retrieved, and
\* the store with its object is what it was at the start
C38_Witness ==
    /\ io["h1"] = "ssh"
    /\ prev["h1"] = Result("checkpresent", "URL--k2", "true", "")
    /\ res["h1"] = Result("retrieve", "URL--k2", "ok", "")
    /\ HasObject("URL--k2")
    /\ files = files0 /\ dirs = dirs0

(***************************************************************************)
(* The layout for any repository id: get_layout_locations and              *)
(* _get_obj_location with pathlib's joining, and two handlers that act for *)
(* two repositories in one store.                                          *)
(***************************************************************************)
\* the characters archive ids are made of, and how long an id gets
IdChars == {"c", "d", "/", "."}
MaxIdLen == 4
\* calls each handler makes
LayoutCalls == 2

RECURSIVE Texts(_)
Texts(n) == IF n = 0 THEN {""} ELSE {t \o c : t \in Texts(n - 1), c \in IdChars}
\* archive ids of more than three characters: "ab" and what follows
RepoIds == {"ab" \o t : t \in UNION {Texts(n) : n \in 2..(MaxIdLen - 2)}}

\* where the first '/' of a text is, or one past its end
FirstSlash(text) ==
    LET hits == {i \in 1..Len(text) : SubSeq(text, i, i) = "/"}
    IN  IF hits = {} THEN Len(text) + 1
        ELSE CHOOSE i \in hits : \A j \in hits : i <= j

\* pathlib: the parts of a path given as text; empty parts and '.' are dropped
RECURSIVE PathParts(_)
PathParts(text) ==
    IF text = "" THEN << >>
    ELSE LET i == FirstSlash(text)
             part == SubSeq(text, 1, i - 1)
             rest == IF i >= Len(text) THEN "" ELSE SubSeq(text, i + 1, Len(text))
         IN  (IF part \in {"", "."} THEN << >> ELSE <<part>>) \o PathParts(rest)

\* pathlib's `path / text`: a text that starts with '/' replaces the path
JoinPath(path, text) ==
    IF text # "" /\ SubSeq(text, 1, 1) = "/"
    THEN PathParts(text) ELSE path \o PathParts(text)

\* the file the store host's file system finds at a path: '..' steps up
RECURSIVE Resolve(_)
Resolve(path) ==
    IF path = << >> THEN << >>
    ELSE LET up == Resolve(Parent(path))
             last == path[Len(path)]
         IN  IF last = ".." THEN Parent(up) ELSE Append(up, last)

\* a layout that leaves out what follows the third character of the id
GetLayoutLocationsMutant(base_path, dsid) ==
    LET dsgit_dir == JoinPath(base_path, SubSeq(dsid, 1, 3))
    IN  [dsgit_dir |-> dsgit_dir,
         archive_dir |-> dsgit_dir \o <<"archives">>,
         dsobj_dir |-> dsgit_dir \o <<"annex", "objects">>]

\* RIARemote.get_layout_locations(base_path, dsid)
GetLayoutLocations(base_path, dsid) ==
    LET dsgit_dir == JoinPath(JoinPath(base_path, SubSeq(dsid, 1, 3)),
                              SubSeq(dsid, 4, Len(dsid)))
    IN  [dsgit_dir |-> dsgit_dir,
         archive_dir |-> dsgit_dir \o <<"archives">>,
         dsobj_dir |-> dsgit_dir \o <<"annex", "objects">>]

\* the paths of a repository in the store at BasePath
RepoRoot(dsid) == Resolve(GetLayoutLocations(BasePath, dsid).dsgit_dir)
RepoArchivePath(dsid) ==
    Resolve(GetLayoutLocations(BasePath, dsid).archive_dir \o <<"archive.7z">>)
RepoObjPath(dsid, key) ==
    Resolve(GetLayoutLocations(BasePath, dsid).dsobj_dir \o KeyPath(key))
RepoTransferDir(dsid, u) ==
    Resolve(GetLayoutLocations(BasePath, dsid).dsgit_dir
                \o <<TransferDirName(u), "transfer">>)

\* two prepared, read-write handlers of two repositories in one claimed
\* store; each repository has its root and its marker
InitLayout ==
    /\ \E ids \in [Handlers -> RepoIds] :
          /\ ctx = [h \in Handlers |-> [id |-> ids[h]] @@ NoCtx]
          /\ dirs = {BasePath}
                    \cup UNION {Prefixes(RepoRoot(ids[h])) : h \in Handlers}
          /\ files = [q \in {VersionFile(1)}
                            \cup {Append(RepoRoot(ids[h]), "ria-layout-version") :
                                    h \in Handlers}
                        |-> NewFile(SupportedVersion \o <<NL>>, {})]
    /\ archive = [exists |-> FALSE, members |-> << >>]
    /\ pc = [h \in Handlers |-> "idle"]
    /\ io = [h \in Handlers |-> "local"]
    /\ uuid = [h \in Handlers |-> "u1"]
    /\ force_write = [h \in Handlers |-> ""]
    /\ calls = [h \in Handlers |-> LayoutCalls]
    /\ faults = 0
    /\ dirs0 = dirs /\ files0 = files
    /\ read_only = [h \in Handlers |-> FALSE]
    /\ stream = [h \in Handlers |-> << >>]
    /\ dst = [h \in Handlers |-> NoDst]
    /\ res = [h \in Handlers |-> NoCall]
    /\ prev = [h \in Handlers |-> NoCall]

\* transfer_store(key, f) of the handler's repository when no command fails:
\* the object's directory and the staging directory are made, f is copied to
\* the staging path and renamed to the object path
LayoutStore(h) ==
    /\ CanCall(h)
    /\ Called(h)
    /\ \E key \in Keys :
        LET obj == RepoObjPath(ctx[h].id, key)
            tdir == RepoTransferDir(ctx[h].id, uuid[h])
            made == Prefixes(Parent(obj)) \cup Prefixes(tdir)
            able == /\ \A q \in made : ~IsFile(q)
                    /\ ~IsDir(obj) /\ ~PathExists(Append(tdir, key))
        IN  IF able
            THEN /\ dirs' = dirs \cup made
                 /\ files' = WithFile(files, obj, NewFile(Payload(h, key), {}))
                 /\ Finish(h, Result("store", key, "ok", ""), "idle")
            ELSE /\ UNCHANGED <<dirs, files>>
                 /\ Finish(h, Result("store", key, "error", "io"), "idle")
    /\ UNCHANGED <<cfgVars, read_only, stream, ctx, dst, faults>>

\* remove(key) of the handler's repository: the object file is unlinked and
\* at most its two nearest directories are removed, each when empty
LayoutRemove(h) ==
    /\ CanCall(h)
    /\ Called(h)
    /\ \E key \in Keys :
        LET obj == RepoObjPath(ctx[h].id, key)
            left == IF IsFile(obj) THEN WithoutFile(files, obj) ELSE files
            Empty(d, p) == /\ p \in d
                           /\ \A q \in d \cup DOMAIN left : Parent(q) # p
            d1 == IF Empty(dirs, Ancestor(obj, 1))
                  THEN dirs \ {Ancestor(obj, 1)} ELSE dirs
            d2 == IF d1 # dirs /\ Empty(d1, Ancestor(obj, 2))
                  THEN d1 \ {Ancestor(obj, 2)} ELSE d1
        IN  /\ files' = left
            /\ dirs' = d2
            /\ Finish(h, Result("remove", key, "ok", ""), "idle")
    /\ UNCHANGED <<cfgVars, read_only, stream, ctx, dst, faults>>

NextLayout == \E h \in Handlers : LayoutStore(h) \/ LayoutRemove(h)

SpecLayout == InitLayout /\ [][NextLayout]_vars

\* the id has no '/' and what follows its third character is a name
PlainId(dsid) ==
    /\ \A i \in 1..Len(dsid) : SubSeq(dsid, i, i) # "/"
    /\ SubSeq(dsid, 4, Len(dsid)) \notin {".", ".."}

\* path p is directory d or lies below it
Inside(d, p) == Len(p) >= Len(d) /\ SubSeq(p, 1, Len(d)) = d

\* the paths of the repositories of h and g are apart
C39_Apart(h, g) ==
    LET a == ctx[h].id
        b == ctx[g].id
    IN  /\ \A k \in Keys : \A l \in Keys :
              (a # b \/ k # l) => RepoObjPath(a, k) # RepoObjPath(b, l)
        /\ a # b => /\ ~Inside(RepoRoot(b), RepoRoot(a))
                    /\ ~Inside(RepoRoot(b), RepoTransferDir(a, uuid[h]))
                    /\ ~Inside(RepoRoot(b), RepoArchivePath(a))

\* a call of h leaves the objects of the repository of g as they are
C39_Frame(h, g) ==
    (calls'[h] # calls[h] /\ ctx[h].id # ctx[g].id)
    => \A k \in Keys :
          LET o == RepoObjPath(ctx[g].id, k)
          IN  /\ (o \in DOMAIN files') = (o \in DOMAIN files)
              /\ o \in DOMAIN files => files'[o] = files[o]

C39_LayoutAsStated ==
    /\ [](\A h \in Handlers : \A g \in Handlers : C39_Apart(h, g))
    /\ [][\A h \in Handlers : \A g \in Handlers : C39_Frame(h, g)]_vars

\* C39: for repository ids of more than three characters that contain no '/'
\* and do not end, after the third character, in '.' or '..', distinct pairs
\* of id and key have distinct object paths, no repository's root, staging
\* directory or archive path lies inside the root of another repository, and
\* a transfer_store or remove for one repository leaves the objects of
\* another as they are.
C39_Layout ==
    /\ [](\A h \in Handlers : \A g \in Handlers :
            (PlainId(ctx[h].id) /\ PlainId(ctx[g].id)) => C39_Apart(h, g))
    /\ [][\A h \in Handlers : \A g \in Handlers :
            (PlainId(ctx[h].id) /\ PlainId(ctx[g].id)) => C39_Frame(h, g)]_vars

\* two repositories whose ids share the first three characters: each has
\* stored the same key, h2 has removed its own, and h1's object is in place
C39_Witness ==
    /\ ctx["h1"].id = "abcd" /\ ctx["h2"].id = "abcc"
    /\ res["h1"] = Result("store", K1, "ok", "")
    /\ prev["h2"] = Result("store", K1, "ok", "")
    /\ res["h2"] = Result("remove", K1, "ok", "")
    /\ RepoObjPath("abcd", K1) \in DOMAIN files
    /\ files[RepoObjPath("abcd", K1)].data = Payload("h1", K1)
    /\ RepoObjPath("abcc", K1) \notin DOMAIN files

\* C40: the byte length worked out from a key is s when the key has a
\* numeric size field s and neither a numeric S nor a numeric C; it is
\* undetermined exactly when the key has no numeric s; and a key with a
\* numeric s and only one of S and C is rejected as invalid.
C40_SizeFromKey ==
    \A h \in Handlers :
        res[h].op = "size"
        => LET c == ctx[h]
           IN  /\ (c.s # None /\ c.S = None /\ c.C = None)
                    => res[h].status = "ok" /\ c.size = c.s
               /\ (res[h].status = "ok" /\ c.size = None) <=> c.s = None
               /\ (c.s # None /\ (c.S = None) # (c.C = None))
                    => res[h].status = "error"

\* a key of 2 bytes with a chunk size and no chunk number has been rejected
C40_Witness ==
    /\ res["h1"] = Result("size", "", "error", "")
    /\ ctx["h1"].s = 2 /\ ctx["h1"].S = 2 /\ ctx["h1"].C = None
====
